---- MODULE Spec2Model ----
(***************************************************************************)
(* Model of the offline audio analysis pipeline of slicer-panel:           *)
(* src/workers/precompute-worker.js (the precompute worker).               *)
(*                                                                         *)
(* Spec       : the worker's message handler and runPrecompute, one stage  *)
(*              per step, with every message it posts.                     *)
(* SpecBands  : computeBandFrequencies / computeBandBinRanges on bounded   *)
(*              configurations.                                            *)
(* SpecOnsets : computeRunningMedian / detectOnsets on bounded flux        *)
(*              sequences.                                                 *)
(*                                                                         *)
(* Numbers: sample counts, frame counts and bin indices are integers.      *)
(* Frequencies are exact rationals; a JavaScript value that is undefined   *)
(* or not a number is the empty sequence, a number n is <<n>>.             *)
(***************************************************************************)
EXTENDS Integers, Sequences, FiniteSets, TLC

VARIABLES
  pc,         \* position of the handler: "idle", a stage label, "done"
  payload,    \* event.data of the message being handled
  leftLen,    \* left.length
  rightLen,   \* right.length
  fftSize, hopSize, numSamples, numFrames,   \* locals of runPrecompute
  frame,      \* loop counter of the STFT loop
  posted,     \* messages posted by self.postMessage during this run
  stages,     \* stages of the pipeline executed during this run, in order
  thrown,     \* message of the exception in flight, or the empty sequence
  bandCfg,    \* SpecBands: [sampleRate, fftSize, numBands]
  bandRanges, \* SpecBands: result of computeBandBinRanges
  bandPc,     \* SpecBands: "ready" | "done"
  flux,       \* SpecOnsets: spectral flux per frame (units of 1e-6)
  medians,    \* SpecOnsets: running medians handed to detectOnsets
  onsets,     \* SpecOnsets: result of detectOnsets
  onsetPc,    \* SpecOnsets: "ready" | "done"
  runSignal,    \* SpecRuns: predicate(values[i], i) for every frame i
  runMin,       \* SpecRuns: minLength
  runOriginal,  \* SpecRuns: the signal as it was before the first call
  runResults,   \* SpecRuns: the arrays returned by the calls of collectRuns so far
  fftRe, fftIm, \* SpecFft: the arrays handed to fft (numerators)
  fftDen,       \* SpecFft: common denominator of the array elements
  fftOriginal,  \* SpecFft: the arrays before the first call
  fftCalls,     \* SpecFft: the `inverse` argument of the calls made so far
  fftError,     \* SpecFft: message of the error thrown by the last call, or << >>
  twiddleCache, \* SpecFft: the module-level twiddle cache, tables by key
  twiddleBuilds, \* SpecFft: the keys buildTwiddles was called for, in order
  frMags,       \* SpecFrame: magnitudes of the frame (units of 1e-13)
  frPeak,       \* SpecFrame: the peak fillMagnitudes returns, << >> before it ran
  frRanges,     \* SpecFrame: bandRanges
  frBands,      \* SpecFrame: the frame's row of the band matrix
  frCells,      \* SpecFrame: the frame's row of the spectrogram tile
  frDivisions,  \* SpecFrame: number of divisions by the frame peak performed
  frPc,         \* SpecFrame: "ready" | "filled" | "banded" | "done"
  sLeft, sRight, \* SpecFaults: the channel buffers (units of 0.5)
  sCfg,         \* SpecFaults: [sampleRate, hopSize, fftSize, numFrames]
  sFlux,        \* SpecFaults: spectralFlux (units of 1e-6)
  sDerived,     \* SpecFaults: rms envelopes, flux medians, phase correlation, band rows
  sFaults,      \* SpecFaults: the faults array
  sPc,          \* SpecFaults: "ready" | "analysed" | "done"
  fxLeft, fxRight, \* SpecFlux: magnitudesLeft / magnitudesRight of every frame
  fxBuffers,    \* SpecFlux: the two mixed-magnitude arrays, by name
  fxPrev, fxCurr, \* SpecFlux: the arrays prevMixedMagnitudes and currMixedMagnitudes refer to
  fxFrame,      \* SpecFlux: loop counter of the STFT loop
  fxFlux,       \* SpecFlux: spectralFlux
  lodSamples,   \* SpecLods: the channel buffer
  lodResult,    \* SpecLods: the value computeWaveformLODs returned
  lodPc,        \* SpecLods: "ready" | "done"
  tlNumFrames, tlNumBins, \* SpecTiles: numFrames and numBins of the run
  tlTiles,      \* SpecTiles: spectrogramTilesLeft
  tlFrame,      \* SpecTiles: loop counter of the STFT loop
  tlLast,       \* SpecTiles: tile, row offset and guard of the last writeSpectrogramFrame
  anFaults,     \* SpecAnomalies: the faults array
  anPc,         \* SpecAnomalies: "off" | "done"
  apToken,      \* SpecApp: activeToken of initDecode
  apDecodes,    \* SpecApp: tokens of the processFile calls waiting for decodeAudioFile
  apSettled,    \* SpecApp: token and activeToken of the last decode that settled
  apInput,      \* SpecApp: fileInput.value
  apDecodeInit, \* SpecApp: the listeners of initDecode are attached
  apDecoded,    \* SpecApp: state.getDecoded(), 0 for null, else the token of its decode
  apPrecomputed, \* SpecApp: state.getPrecomputed(), 0 for null, else the audio it was computed from
  apMeta,       \* SpecApp: state.getFileMeta(), 0 for null
  apBookmarks,  \* SpecApp: number of bookmarks
  apListening,  \* SpecApp: the FILE_LOADED listener of initPrecompute is registered
  apSupport,    \* SpecApp: typeof Worker !== 'undefined'
  apActiveWorker, \* SpecApp: activeWorker, 0 for null
  apWorkers,    \* SpecApp: the workers created so far
  apEmitted     \* SpecApp: the bus events of the last step

pipeVars == <<pc, payload, leftLen, rightLen, fftSize, hopSize, numSamples,
              numFrames, frame, posted, stages, thrown>>
bandVars == <<bandCfg, bandRanges, bandPc>>
onsetVars == <<flux, medians, onsets, onsetPc>>
runVars == <<runSignal, runMin, runOriginal, runResults>>
fftVars == <<fftRe, fftIm, fftDen, fftOriginal, fftCalls, fftError, twiddleCache, twiddleBuilds>>
frameVars == <<frMags, frPeak, frRanges, frBands, frCells, frDivisions, frPc>>
faultVars == <<sLeft, sRight, sCfg, sFlux, sDerived, sFaults, sPc>>
fluxVars == <<fxLeft, fxRight, fxBuffers, fxPrev, fxCurr, fxFrame, fxFlux>>
lodVars == <<lodSamples, lodResult, lodPc>>
tileVars == <<tlNumFrames, tlNumBins, tlTiles, tlFrame, tlLast>>
anomalyVars == <<anFaults, anPc>>
appVars == <<apToken, apDecodes, apSettled, apInput, apDecodeInit, apDecoded,
             apPrecomputed, apMeta, apBookmarks, apListening, apSupport,
             apActiveWorker, apWorkers, apEmitted>>
lateVars == <<fluxVars, lodVars, tileVars, anomalyVars, appVars>>
extVars == <<runVars, fftVars, frameVars, faultVars, lateVars>>
vars == <<pipeVars, bandVars, onsetVars, extVars>>

----------------------------------------------------------------------------
(* Bounds *)

MaxLen == 2            \* short channel buffers hold 0..MaxLen samples
LongLen == 102         \* one long buffer: more than 100 frames at fftSize 2, hop 1
MisalignedBytes == 6   \* an ArrayBuffer whose byteLength is not a multiple of 4
MaxFftField == 4       \* payload.fftSize ranges over 0..MaxFftField
MaxHopField == 3       \* payload.hopSize ranges over -1..MaxHopField

MaxFftExp == 3         \* SpecBands: fftSize ranges over 2^1 .. 2^MaxFftExp
MaxBands == 3          \* SpecBands: numBands ranges over 1..MaxBands

MaxFrames == 4         \* SpecOnsets: flux sequences have 1..MaxFrames frames
MaxFlux == 5           \* SpecOnsets: flux values range over 0..MaxFlux (units of 1e-6)

MaxOnsetFrames == 5    \* SpecFluxOnsets: spectralFlux has 1..MaxOnsetFrames frames
MaxFftCalls == 2       \* SpecFft: fft is called at most MaxFftCalls times on one pair of arrays
MaxSamples == 4        \* SpecFaults: the channel buffers have 1..MaxSamples samples
MaxClipLen == 5        \* SpecClipping: the channel buffers have 1..MaxClipLen samples
MaxFluxFrames == 3     \* SpecFlux: the STFT loop runs over 1..MaxFluxFrames frames
MaxAnomalyFrames == 7  \* SpecAnomalies: spectralFlux has 1..MaxAnomalyFrames frames
MaxFiles == 2          \* SpecApp: processFile is called at most MaxFiles times
MaxWorkerProgress == 1 \* SpecApp: progress messages a worker posts before its last message
MaxRunLen == 5         \* SpecRuns: the boolean signal has 1..MaxRunLen frames
MaxRunMin == 3         \* SpecRuns: minLength ranges over 1..MaxRunMin

(* Program constants *)

DEFAULT_FFT_SIZE == 2048
DEFAULT_HOP_SIZE == 512
MIN_FREQ == 20         \* minFreq of computeBandFrequencies
MAX_FREQ == 20000      \* the upper limit of the band edges
MEDIAN_RADIUS == 10    \* radius of the running median of the flux
ONSET_FACTOR == 4      \* the onset threshold is ONSET_FACTOR * max(median, ONSET_FLOOR)
ONSET_FLOOR == 1       \* 1e-6, in the unit of the flux values

----------------------------------------------------------------------------
(* JavaScript helpers *)

Undefined == << >>
Num(n) == <<n>>
IsNumber(v) == Len(v) = 1

Min2(a, b) == IF a <= b THEN a ELSE b
Max2(a, b) == IF a >= b THEN a ELSE b

RECURSIVE BitAnd(_, _)
\* a & b for non-negative integers
BitAnd(a, b) ==
  IF a = 0 \/ b = 0 THEN 0
  ELSE (IF a % 2 = 1 /\ b % 2 = 1 THEN 1 ELSE 0) + 2 * BitAnd(a \div 2, b \div 2)

\* Math.round(num / den) for den > 0: the nearest integer, halves upwards
MathRound(num, den) == (2 * num + den) \div (2 * den)

clampInt(value, min, max) == Max2(min, Min2(max, value))

----------------------------------------------------------------------------
(* The message handled by the worker *)

Sizes == (0..MaxLen) \cup {LongLen}
ByteSizes == {4 * n : n \in 0..MaxLen} \cup {MisalignedBytes}

\* a channel field of the payload: a Float32Array of `size` samples, an
\* ArrayBuffer of `size` bytes, undefined, or any other value
Channels ==
  {[kind |-> "undefined", size |-> 0], [kind |-> "other", size |-> 0]}
    \cup {[kind |-> "f32", size |-> n] : n \in Sizes}
    \cup {[kind |-> "buf", size |-> n] : n \in ByteSizes}

NumSamplesFields == {Undefined} \cup {Num(n) : n \in (0..MaxLen) \cup {LongLen}}
FftFields == {Undefined} \cup {Num(n) : n \in 0..MaxFftField}
HopFields == {Undefined} \cup {Num(n) : n \in (-1)..MaxHopField}

Payloads ==
  [left : Channels, right : Channels, numSamples : NumSamplesFields,
   fftSize : FftFields, hopSize : HopFields]

NoPayload ==
  [left |-> [kind |-> "undefined", size |-> 0],
   right |-> [kind |-> "undefined", size |-> 0],
   numSamples |-> Undefined, fftSize |-> Undefined, hopSize |-> Undefined]

AllStages == {"lod", "rms", "stft", "onsets", "phase", "faults"}

----------------------------------------------------------------------------
(* Helpers of runPrecompute *)

toFloat32Array(value, name) ==
  IF value.kind = "f32" THEN [ok |-> TRUE, len |-> value.size, error |-> << >>]
  ELSE IF value.kind = "buf" THEN
    IF value.size % 4 = 0
      THEN [ok |-> TRUE, len |-> value.size \div 4, error |-> << >>]
      ELSE [ok |-> FALSE, len |-> 0,
            error |-> <<"byte length of Float32Array should be a multiple of 4">>]
  ELSE [ok |-> FALSE, len |-> 0, error |-> <<"Expected Float32Array for", name>>]

\* variant: the power-of-two test is missing
sanitizePowerOfTwo_noBitTest(value, fallback) ==
  IF ~IsNumber(value) THEN fallback
  ELSE IF value[1] < 2 THEN fallback
  ELSE value[1]

sanitizePowerOfTwo(value, fallback) ==
  IF ~IsNumber(value) THEN fallback
  ELSE IF value[1] < 2 THEN fallback
  ELSE IF BitAnd(value[1], value[1] - 1) # 0 THEN fallback
  ELSE value[1]

\* Math.max(1, Number(payload.hopSize) || DEFAULT_HOP_SIZE)
sanitizeHopSize(value) ==
  Max2(1, IF IsNumber(value) /\ value[1] # 0 THEN value[1] ELSE DEFAULT_HOP_SIZE)

\* variant: the right channel's length is not taken into account
effectiveNumSamples_leftOnly(value, lLen, rLen) ==
  LET requested == IF ~IsNumber(value) \/ value[1] <= 0 THEN lLen ELSE value[1]
  IN Min2(requested, lLen)

\* lines 40-44: the sample count the run works on
effectiveNumSamples(value, lLen, rLen) ==
  LET requested == IF ~IsNumber(value) \/ value[1] <= 0
                     THEN Min2(lLen, rLen) ELSE value[1]
  IN Min2(requested, Min2(lLen, rLen))

\* variant: the "+ 1" is missing
computeNumFrames_offByOne(nSamples, fft, hop) ==
  Max2(1, (nSamples - fft) \div hop)

\* variant: the quotient is rounded up
computeNumFrames_roundedUp(nSamples, fft, hop) ==
  Max2(1, ((nSamples - fft + hop - 1) \div hop) + 1)

\* line 57
computeNumFrames(nSamples, fft, hop) ==
  Max2(1, ((nSamples - fft) \div hop) + 1)

\* postProgress(percent, stage) with percent = num / den
postProgress(msgs, num, den, stage) ==
  Append(msgs, [type |-> "progress",
                percent |-> Max2(0, Min2(100, MathRound(num, den))),
                stage |-> stage])

----------------------------------------------------------------------------
(* self.onmessage and runPrecompute, one step per stage *)

RunsIdle ==
  /\ runSignal = << >>
  /\ runMin = 0
  /\ runOriginal = << >>
  /\ runResults = << >>

FftIdle ==
  /\ fftRe = << >> /\ fftIm = << >>
  /\ fftDen = 1
  /\ fftOriginal = << >>
  /\ fftCalls = << >>
  /\ fftError = << >>
  /\ twiddleCache = << >>
  /\ twiddleBuilds = << >>

FrameIdle ==
  /\ frMags = << >>
  /\ frPeak = << >>
  /\ frRanges = << >>
  /\ frBands = << >>
  /\ frCells = << >>
  /\ frDivisions = 0
  /\ frPc = "off"

FaultsIdle ==
  /\ sLeft = << >> /\ sRight = << >>
  /\ sCfg = << >>
  /\ sFlux = << >>
  /\ sDerived = << >>
  /\ sFaults = << >>
  /\ sPc = "off"

FluxIdle ==
  /\ fxLeft = << >> /\ fxRight = << >>
  /\ fxBuffers = << >>
  /\ fxPrev = "" /\ fxCurr = ""
  /\ fxFrame = 0
  /\ fxFlux = << >>

LodIdle ==
  /\ lodSamples = << >>
  /\ lodResult = << >>
  /\ lodPc = "off"

TilesIdle ==
  /\ tlNumFrames = 0 /\ tlNumBins = 0
  /\ tlTiles = << >>
  /\ tlFrame = 0
  /\ tlLast = << >>

AnomaliesIdle ==
  /\ anFaults = << >>
  /\ anPc = "off"

AppIdle ==
  /\ apToken = 0
  /\ apDecodes = {}
  /\ apSettled = << >>
  /\ apInput = ""
  /\ apDecodeInit = FALSE
  /\ apDecoded = 0 /\ apPrecomputed = 0 /\ apMeta = 0 /\ apBookmarks = 0
  /\ apListening = FALSE
  /\ apSupport = FALSE
  /\ apActiveWorker = 0
  /\ apWorkers = << >>
  /\ apEmitted = << >>

LateIdle == FluxIdle /\ LodIdle /\ TilesIdle /\ AnomaliesIdle /\ AppIdle

ExtIdle == RunsIdle /\ FftIdle /\ FrameIdle /\ FaultsIdle /\ LateIdle

BandsIdle ==
  /\ bandCfg = [sampleRate |-> 0, fftSize |-> 0, numBands |-> 0]
  /\ bandRanges = << >>
  /\ bandPc = "off"

OnsetsIdle ==
  /\ flux = << >>
  /\ medians = << >>
  /\ onsets = << >>
  /\ onsetPc = "off"

Init ==
  /\ pc = "idle"
  /\ payload = NoPayload
  /\ leftLen = 0 /\ rightLen = 0
  /\ fftSize = 0 /\ hopSize = 0 /\ numSamples = 0 /\ numFrames = 0
  /\ frame = 0
  /\ posted = << >>
  /\ stages = {}
  /\ thrown = << >>
  /\ BandsIdle
  /\ OnsetsIdle
  /\ ExtIdle

\* line 11: a message arrives; the handler starts a run on event.data
Receive ==
  /\ pc = "idle"
  /\ \E p \in Payloads : payload' = p
  /\ pc' = "validate"
  /\ UNCHANGED <<leftLen, rightLen, fftSize, hopSize, numSamples, numFrames,
                 frame, posted, stages, thrown, bandVars, onsetVars, extVars>>

\* line 29: the handler returns; the worker waits for the next message and
\* nothing of the finished run is kept
Return ==
  /\ pc = "done"
  /\ pc' = "idle"
  /\ payload' = NoPayload
  /\ leftLen' = 0 /\ rightLen' = 0
  /\ fftSize' = 0 /\ hopSize' = 0 /\ numSamples' = 0 /\ numFrames' = 0
  /\ frame' = 0
  /\ posted' = << >>
  /\ stages' = {}
  /\ thrown' = << >>
  /\ UNCHANGED <<bandVars, onsetVars, extVars>>

\* variant: the sample-count check comes after the first progress checkpoint
Validate_lateCheck ==
  /\ pc = "validate"
  /\ LET l == toFloat32Array(payload.left, "left")
         r == IF payload.right.kind = "undefined"
                THEN l ELSE toFloat32Array(payload.right, "right")
         n == effectiveNumSamples(payload.numSamples, l.len, r.len)
         fail(msg, msgs) == /\ thrown' = msg
                            /\ pc' = "catch"
                            /\ posted' = msgs
                            /\ UNCHANGED <<leftLen, rightLen, fftSize, hopSize,
                                           numSamples, numFrames>>
     IN IF ~l.ok THEN fail(l.error, posted)
        ELSE IF ~r.ok THEN fail(r.error, posted)
        ELSE IF n < 1
          THEN fail(<<"Audio payload has no samples.">>,
                    postProgress(posted, 2, 1, "Initializing precompute"))
        ELSE /\ leftLen' = n
             /\ rightLen' = n
             /\ fftSize' = sanitizePowerOfTwo(payload.fftSize, DEFAULT_FFT_SIZE)
             /\ hopSize' = sanitizeHopSize(payload.hopSize)
             /\ numSamples' = n
             /\ numFrames' = computeNumFrames(n, fftSize', hopSize')
             /\ pc' = "init"
             /\ thrown' = thrown
             /\ posted' = posted
  /\ UNCHANGED <<payload, frame, stages, bandVars, onsetVars, extVars>>

\* lines 32-60: conversion of the channels, configuration, derived sizes
Validate ==
  /\ pc = "validate"
  /\ LET l == toFloat32Array(payload.left, "left")
         r == IF payload.right.kind = "undefined"
                THEN l ELSE toFloat32Array(payload.right, "right")
         fft == sanitizePowerOfTwo(payload.fftSize, DEFAULT_FFT_SIZE)
         hop == sanitizeHopSize(payload.hopSize)
         n == effectiveNumSamples(payload.numSamples, l.len, r.len)
         fail(msg) == /\ thrown' = msg
                      /\ pc' = "catch"
                      /\ UNCHANGED <<leftLen, rightLen, fftSize, hopSize,
                                     numSamples, numFrames>>
     IN IF ~l.ok THEN fail(l.error)
        ELSE IF ~r.ok THEN fail(r.error)
        ELSE IF n < 1 THEN fail(<<"Audio payload has no samples.">>)
        ELSE /\ leftLen' = n
             /\ rightLen' = n
             /\ fftSize' = fft
             /\ hopSize' = hop
             /\ numSamples' = n
             /\ numFrames' = computeNumFrames(n, fft, hop)
             /\ pc' = "init"
             /\ thrown' = thrown
  /\ UNCHANGED <<payload, frame, posted, stages, bandVars, onsetVars, extVars>>

Step(from, to, stage, num, label) ==
  /\ pc = from
  /\ pc' = to
  /\ stages' = stages \cup stage
  /\ posted' = postProgress(posted, num, 1, label)
  /\ UNCHANGED <<payload, leftLen, rightLen, fftSize, hopSize, numSamples,
                 numFrames, frame, thrown, bandVars, onsetVars, extVars>>

\* line 62
InitProgress == Step("init", "lod", {}, 2, "Initializing precompute")

\* lines 64-66
WaveformLODs == Step("lod", "rms", {"lod"}, 10, "Downsampled waveform LODs")

\* lines 68-70
RmsEnvelope == Step("rms", "stftStart", {"rms"}, 20, "Computed RMS envelope")

\* lines 72-90
StftStart == Step("stftStart", "stft", {}, 21, "Running STFT")

\* the progress checkpoint of the STFT loop, lines 127-130
stftProgress(msgs, f, nFrames) ==
  IF BitAnd(f, 31) = 0 \/ f = nFrames - 1
    THEN postProgress(msgs, 20 * nFrames + (f + 1) * 50, nFrames, "Running STFT")
    ELSE msgs

\* lines 91-131: one iteration of the per-frame spectral loop
StftFrame ==
  /\ pc = "stft"
  /\ frame < numFrames
  /\ stages' = stages \cup {"stft"}
  /\ posted' = stftProgress(posted, frame, numFrames)
  /\ frame' = frame + 1
  /\ UNCHANGED <<pc, payload, leftLen, rightLen, fftSize, hopSize, numSamples,
                 numFrames, thrown, bandVars, onsetVars, extVars>>

\* line 132, after the loop
StftDone ==
  /\ frame >= numFrames
  /\ Step("stft", "onsets", {}, 75, "Computed logarithmic bands")

\* lines 134-136
FluxOnsets ==
  Step("onsets", "phase", {"onsets"}, 80, "Computed spectral flux and onsets")

\* lines 138-139
PhaseCorrelation == Step("phase", "faults", {"phase"}, 85, "Computed phase correlation")

\* lines 141-155: fault detection and the two closing checkpoints
Faults ==
  /\ pc = "faults"
  /\ pc' = "return"
  /\ stages' = stages \cup {"faults"}
  /\ posted' = postProgress(postProgress(posted, 95, 1, "Detected signal faults"),
                            100, 1, "Precompute complete")
  /\ UNCHANGED <<payload, leftLen, rightLen, fftSize, hopSize, numSamples,
                 numFrames, frame, thrown, bandVars, onsetVars, extVars>>

\* variant: the bundle is posted and the handler then fails all the same
PostResult_thenThrow ==
  /\ pc = "return"
  /\ posted' = Append(posted, [type |-> "result", data |-> stages])
  /\ thrown' = <<"DataCloneError">>
  /\ pc' = "catch"
  /\ UNCHANGED <<payload, leftLen, rightLen, fftSize, hopSize, numSamples,
                 numFrames, frame, stages, bandVars, onsetVars, extVars>>

\* lines 13-22: runPrecompute returned; the bundle is posted
PostResult ==
  /\ pc = "return"
  /\ posted' = Append(posted, [type |-> "result", data |-> stages])
  /\ pc' = "done"
  /\ UNCHANGED <<payload, leftLen, rightLen, fftSize, hopSize, numSamples,
                 numFrames, frame, stages, thrown, bandVars, onsetVars, extVars>>

\* lines 23-28: runPrecompute threw; the error is posted
CatchError ==
  /\ pc = "catch"
  /\ posted' = Append(posted, [type |-> "error", message |-> thrown])
  /\ pc' = "done"
  /\ UNCHANGED <<payload, leftLen, rightLen, fftSize, hopSize, numSamples,
                 numFrames, frame, stages, thrown, bandVars, onsetVars, extVars>>

Next ==
  \/ Receive
  \/ Validate
  \/ InitProgress
  \/ WaveformLODs
  \/ RmsEnvelope
  \/ StftStart
  \/ StftFrame
  \/ StftDone
  \/ FluxOnsets
  \/ PhaseCorrelation
  \/ Faults
  \/ PostResult
  \/ CatchError
  \/ Return

Spec == Init /\ [][Next]_vars

----------------------------------------------------------------------------
(* Logarithmic band mapper: computeBandFrequencies, computeBandBinRanges *)

RECURSIVE GCD(_, _)
GCD(a, b) == IF b = 0 THEN a ELSE GCD(b, a % b)

RECURSIVE Pow(_, _)
Pow(x, n) == IF n = 0 THEN 1 ELSE x * Pow(x, n - 1)

RECURSIVE PowLeq(_, _, _)
\* x^n <= y for integers x >= 0, n >= 0, y >= 0, without computing x^n
PowLeq(x, n, y) ==
  IF n = 0 THEN 1 <= y
  ELSE IF x = 0 THEN TRUE
  ELSE PowLeq(x, n - 1, y \div x)

\* The band edge minFreq * Math.pow(maxFreq / minFreq, j / numBands), kept
\* exact: maxFreq = max(minFreq, min(MAX_FREQ, max(20, sampleRate / 2))) is
\* held as twice its value so that an odd sampleRate stays an integer.
bandEdge(j, numBands, sampleRate) ==
  LET nyquist2 == Max2(2 * 20, sampleRate)
      maxFreq2 == Max2(2 * MIN_FREQ, Min2(2 * MAX_FREQ, nyquist2))
  IN [j |-> j, n |-> numBands, ratioNum |-> maxFreq2, ratioDen |-> 2 * MIN_FREQ]

computeBandFrequencies(numBands, sampleRate) ==
  [i \in 1..numBands |->
     [low |-> bandEdge(i - 1, numBands, sampleRate),
      high |-> bandEdge(i, numBands, sampleRate)]]

\* k * binWidth <= edge, with binWidth = sampleRate / fftSize (fftN), that is
\*   (k * sampleRate)^n * ratioDen^j <= (MIN_FREQ * fftN)^n * ratioNum^j
\* decided on the fractions in lowest terms
edgeAtLeast(edge, k, sampleRate, fftN) ==
  LET g1 == GCD(MIN_FREQ * fftN, sampleRate)
      a == (MIN_FREQ * fftN) \div g1
      b == sampleRate \div g1
      g2 == GCD(edge.ratioNum, edge.ratioDen)
      num == edge.ratioNum \div g2
      den == edge.ratioDen \div g2
      rhs == Pow(a, edge.n) * Pow(num, edge.j)
  IN PowLeq(k * b, edge.n, rhs \div Pow(den, edge.j))

\* Math.floor(edge / binWidth), exact up to numBins + 1; any larger value is
\* reported as numBins + 1, which clampInt treats like every value >= numBins
floorEdgeOverBinWidth(edge, sampleRate, fftN, numBins) ==
  CHOOSE k \in 0..(numBins + 1) :
    /\ edgeAtLeast(edge, k, sampleRate, fftN)
    /\ k < numBins + 1 => ~edgeAtLeast(edge, k + 1, sampleRate, fftN)

\* variant: the band starts one bin above the bin holding its low edge
computeBandBinRanges_exclusiveLow(bandFrequencies, sampleRate, fftN, numBins) ==
  [i \in DOMAIN bandFrequencies |->
     LET band == bandFrequencies[i]
         lowBin == clampInt(floorEdgeOverBinWidth(band.low, sampleRate, fftN, numBins) + 1,
                            0, numBins - 1)
         highBin == clampInt(floorEdgeOverBinWidth(band.high, sampleRate, fftN, numBins),
                             lowBin, numBins - 1)
     IN [lowBin |-> lowBin, highBin |-> highBin]]

\* variant: the high bin is clamped to numBins instead of numBins - 1
computeBandBinRanges_clampNumBins(bandFrequencies, sampleRate, fftN, numBins) ==
  [i \in DOMAIN bandFrequencies |->
     LET band == bandFrequencies[i]
         lowBin == clampInt(floorEdgeOverBinWidth(band.low, sampleRate, fftN, numBins),
                            0, numBins - 1)
         highBin == clampInt(floorEdgeOverBinWidth(band.high, sampleRate, fftN, numBins),
                             lowBin, numBins)
     IN [lowBin |-> lowBin, highBin |-> highBin]]

computeBandBinRanges(bandFrequencies, sampleRate, fftN, numBins) ==
  [i \in DOMAIN bandFrequencies |->
     LET band == bandFrequencies[i]
         lowBin == clampInt(floorEdgeOverBinWidth(band.low, sampleRate, fftN, numBins),
                            0, numBins - 1)
         highBin == clampInt(floorEdgeOverBinWidth(band.high, sampleRate, fftN, numBins),
                             lowBin, numBins - 1)
     IN [lowBin |-> lowBin, highBin |-> highBin]]

\* sample rates below 40 kHz (the top edge is Nyquist) with short transforms,
\* and rates above it (the top edge is 20 kHz)
LowSampleRates == {30, 50, 60, 100, 200, 400}
HighSampleRates == {80000}
BandConfigs ==
  {[sampleRate |-> sr, fftSize |-> 2 ^ e, numBands |-> n] :
     sr \in LowSampleRates, e \in 1..MaxFftExp, n \in 1..MaxBands}
  \cup
  {[sampleRate |-> sr, fftSize |-> f, numBands |-> n] :
     sr \in HighSampleRates, f \in {8, 16}, n \in 1..3}

PipelineIdle ==
  /\ pc = "off"
  /\ payload = NoPayload
  /\ leftLen = 0 /\ rightLen = 0
  /\ fftSize = 0 /\ hopSize = 0 /\ numSamples = 0 /\ numFrames = 0
  /\ frame = 0
  /\ posted = << >>
  /\ stages = {}
  /\ thrown = << >>

InitBands ==
  /\ PipelineIdle
  /\ OnsetsIdle
  /\ ExtIdle
  /\ bandCfg \in BandConfigs
  /\ bandRanges = << >>
  /\ bandPc = "ready"

\* lines 58-60 of runPrecompute
ComputeBands ==
  /\ bandPc = "ready"
  /\ bandRanges' = computeBandBinRanges(
                     computeBandFrequencies(bandCfg.numBands, bandCfg.sampleRate),
                     bandCfg.sampleRate, bandCfg.fftSize, bandCfg.fftSize \div 2)
  /\ bandPc' = "done"
  /\ UNCHANGED <<bandCfg, pipeVars, onsetVars, extVars>>

NextBands == ComputeBands

SpecBands == InitBands /\ [][NextBands]_vars

----------------------------------------------------------------------------
(* Flux/onset detector: computeRunningMedian, detectOnsets.                *)
(* Frames are numbered from 0 as in the source; frame f of a sequence s is *)
(* s[f + 1].                                                               *)

\* array[f] ?? 0 : the element of frame f, 0 when f is outside the array
At(array, f) == IF f >= 0 /\ f < Len(array) THEN array[f + 1] ELSE 0

computeRunningMedian(values, radius) ==
  [k \in 1..Len(values) |->
     LET i == k - 1
         start == Max2(0, i - radius)
         end == Min2(Len(values) - 1, i + radius)
         window == SortSeq(SubSeq(values, start + 1, end + 1), LAMBDA a, b : a < b)
     IN At(window, Len(window) \div 2)]

RECURSIVE detectOnsetsLoop(_, _, _, _)
\* the loop of detectOnsets from frame i on, indexes being the array so far
detectOnsetsLoop(fluxArr, medianArr, i, indexes) ==
  IF i >= Len(fluxArr) THEN indexes
  ELSE
    LET threshold == ONSET_FACTOR * Max2(At(medianArr, i), ONSET_FLOOR)
        prev == At(fluxArr, i - 1)
        next == At(fluxArr, i + 1)
    IN IF At(fluxArr, i) <= threshold
         THEN detectOnsetsLoop(fluxArr, medianArr, i + 1, indexes)
       ELSE IF At(fluxArr, i) >= prev /\ At(fluxArr, i) >= next
         THEN detectOnsetsLoop(fluxArr, medianArr, i + 1, Append(indexes, i))
       ELSE detectOnsetsLoop(fluxArr, medianArr, i + 1, indexes)

\* variant: the loop starts at frame 0
detectOnsets_fromZero(fluxArr, medianArr) ==
  detectOnsetsLoop(fluxArr, medianArr, 0, << >>)

\* variant: the frame after the peak is stored
detectOnsets_oneBased(fluxArr, medianArr) ==
  LET found == detectOnsetsLoop(fluxArr, medianArr, 1, << >>)
  IN [k \in DOMAIN found |-> found[k] + 1]

\* variant: a frame must be strictly above the frame after it
detectOnsets_strictPeak(fluxArr, medianArr) ==
  SelectSeq(detectOnsetsLoop(fluxArr, medianArr, 1, << >>),
            LAMBDA i : At(fluxArr, i) > At(fluxArr, i + 1))

detectOnsets(fluxArr, medianArr) ==
  detectOnsetsLoop(fluxArr, medianArr, 1, << >>)

FluxValues == 0..MaxFlux
FluxSeqs == UNION {[1..n -> FluxValues] : n \in 1..MaxFrames}
\* medians given directly to detectOnsets: the same value in every frame
GivenMedians(n) == {[k \in 1..n |-> m] : m \in FluxValues}

InitOnsets ==
  /\ PipelineIdle
  /\ BandsIdle
  /\ ExtIdle
  /\ flux \in FluxSeqs
  /\ medians \in {<< >>} \cup GivenMedians(Len(flux))
  /\ onsets = << >>
  /\ onsetPc = "ready"

\* line 134 of runPrecompute
RunningMedian ==
  /\ onsetPc = "ready"
  /\ medians = << >>
  /\ medians' = computeRunningMedian(flux, MEDIAN_RADIUS)
  /\ UNCHANGED <<flux, onsets, onsetPc, pipeVars, bandVars, extVars>>

\* line 135 of runPrecompute
DetectOnsets ==
  /\ onsetPc = "ready"
  /\ medians # << >>
  /\ onsets' = detectOnsets(flux, medians)
  /\ onsetPc' = "done"
  /\ UNCHANGED <<flux, medians, pipeVars, bandVars, extVars>>

NextOnsets ==
  \/ RunningMedian
  \/ DetectOnsets

SpecOnsets == InitOnsets /\ [][NextOnsets]_vars

\* spectralFlux as the STFT loop leaves it: frame 0 has no previous frame, so
\* its flux is 0; the medians are the ones computeRunningMedian returns
SpectralFluxSeqs ==
  {fl \in UNION {[1..n -> FluxValues] : n \in 1..MaxOnsetFrames} : fl[1] = 0}

InitFluxOnsets ==
  /\ PipelineIdle
  /\ BandsIdle
  /\ ExtIdle
  /\ flux \in SpectralFluxSeqs
  /\ medians = << >>
  /\ onsets = << >>
  /\ onsetPc = "ready"

SpecFluxOnsets == InitFluxOnsets /\ [][NextOnsets]_vars

----------------------------------------------------------------------------
(* Properties of the orchestrator *)

IsProgress(m) == m.type = "progress"
IsTerminal(m) == m.type \in {"result", "error"}
Terminals == {i \in DOMAIN posted : IsTerminal(posted[i])}
LastPosted == posted[Len(posted)]
EndedWith(t) == pc = "done" /\ Len(posted) > 0 /\ LastPosted.type = t

\* runPrecompute got past line 58 without throwing
Validated == pc \notin {"idle", "validate", "catch"} /\ thrown = << >>

\* n is a power of two >= 2
IsPowerOfTwoAtLeast2(n) == \E k \in 1..(MaxFftField + 1) : n = 2 ^ k
InvalidFftSupplied == IsNumber(payload.fftSize) /\ ~IsPowerOfTwoAtLeast2(payload.fftSize[1])

\* the channel data of the payload, as runPrecompute reads it
LeftSamples ==
  IF payload.left.kind = "f32" THEN payload.left.size
  ELSE IF payload.left.kind = "buf" /\ payload.left.size % 4 = 0
    THEN payload.left.size \div 4 ELSE -1
RightSamples ==
  IF payload.right.kind = "undefined" THEN LeftSamples
  ELSE IF payload.right.kind = "f32" THEN payload.right.size
  ELSE IF payload.right.kind = "buf" /\ payload.right.size % 4 = 0
    THEN payload.right.size \div 4 ELSE -1
ChannelsUsable == LeftSamples >= 1 /\ RightSamples >= 1

\* C1: the percent values of the progress messages of one run are integers
\* in 0..100 and never decrease
C1_ProgressMonotone ==
  /\ \A i \in DOMAIN posted :
       IsProgress(posted[i]) => posted[i].percent \in 0..100
  /\ \A i, j \in DOMAIN posted :
       (i < j /\ IsProgress(posted[i]) /\ IsProgress(posted[j]))
         => posted[i].percent <= posted[j].percent

\* C2: a run posts exactly one terminal message, a result carrying the full
\* bundle or an error, as its last message; never both
C2_OneTerminalLast ==
  /\ Cardinality(Terminals) <= 1
  /\ \A i \in Terminals : i = Len(posted) /\ pc = "done"
  /\ pc = "done" => Cardinality(Terminals) = 1
  /\ \A i \in Terminals : posted[i].type = "result" => posted[i].data = AllStages

C2_Witness == EndedWith("error") /\ stages = {}

CommonLength ==
  LET shorter == IF LeftSamples <= RightSamples THEN LeftSamples ELSE RightSamples
  IN IF IsNumber(payload.numSamples) /\ payload.numSamples[1] > 0
          /\ payload.numSamples[1] < shorter
       THEN payload.numSamples[1] ELSE shorter

C5_InputErrorsBeforeStages ==
  (thrown # << >> \/ EndedWith("error")) =>
    /\ \A i \in DOMAIN posted : ~IsProgress(posted[i])
    /\ stages = {}

C5_Witness ==
  /\ EndedWith("error")
  /\ LastPosted.message = <<"Audio payload has no samples.">>

\* C6: numFrames >= 1; it is 1 when the signal is shorter than fftSize, and
\* otherwise the number of whole windows of fftSize samples at hopSize stride
C6_FrameCount ==
  Validated =>
    /\ numFrames >= 1
    /\ numSamples < fftSize => numFrames = 1
    /\ numSamples >= fftSize =>
         /\ (numFrames - 1) * hopSize + fftSize <= numSamples
         /\ numFrames * hopSize + fftSize > numSamples

C6_Witness ==
  /\ Validated
  /\ numFrames > 1
  /\ hopSize > 1
  /\ (numSamples - fftSize) % hopSize # 0

----------------------------------------------------------------------------
(* Properties of the band mapper *)

BandNumBins == bandCfg.fftSize \div 2
BandCovered(bin) ==
  \E b \in DOMAIN bandRanges : bandRanges[b].lowBin <= bin /\ bin <= bandRanges[b].highBin

\* C7: for every band, 0 <= lowBin <= highBin < numBins; so the bins read by
\* writeBandFrame are inside [0, numBins) and their count is at least 1
C7_BandRangesInBounds ==
  bandPc = "done" =>
    /\ DOMAIN bandRanges = 1..bandCfg.numBands
    /\ \A b \in DOMAIN bandRanges :
         /\ 0 <= bandRanges[b].lowBin
         /\ bandRanges[b].lowBin <= bandRanges[b].highBin
         /\ bandRanges[b].highBin < BandNumBins
         /\ bandRanges[b].highBin - bandRanges[b].lowBin + 1 >= 1

C7_Witness ==
  /\ bandPc = "done"
  /\ bandCfg.numBands >= 2
  /\ \E b \in DOMAIN bandRanges :
       /\ bandRanges[b].lowBin < bandRanges[b].highBin
       /\ bandRanges[b].highBin = BandNumBins - 1

\* C8 as stated: every bin of [0, numBins) is inside some band's bin range
C8_AllBinsCovered ==
  bandPc = "done" => \A bin \in 0..(BandNumBins - 1) : BandCovered(bin)

\* C8 amended: the band ranges cover exactly the bins from the bin holding
\* 20 Hz to the bin holding min(20000 Hz, Nyquist) (both limited to
\* numBins - 1), without a gap; bins below or above are in no band
C8_BandsCoverAudibleBins ==
  bandPc = "done" =>
    LET first == Min2((MIN_FREQ * bandCfg.fftSize) \div bandCfg.sampleRate,
                      BandNumBins - 1)
        top2 == Max2(2 * MIN_FREQ, Min2(2 * MAX_FREQ, bandCfg.sampleRate))
        last == Min2((top2 * bandCfg.fftSize) \div (2 * bandCfg.sampleRate),
                     BandNumBins - 1)
    IN \A bin \in 0..(BandNumBins - 1) :
         BandCovered(bin) <=> (first <= bin /\ bin <= last)

C8_Witness ==
  /\ bandPc = "done"
  /\ bandCfg.numBands >= 2
  /\ ~BandCovered(0)
  /\ \E bin \in 0..(BandNumBins - 1) : BandCovered(bin)

----------------------------------------------------------------------------
(* Properties of the onset detector *)

OnsetFrames == {onsets[k] : k \in DOMAIN onsets}
LastFrame == Len(flux) - 1
AboveThreshold(f) == At(flux, f) > 4 * (IF At(medians, f) > 1 THEN At(medians, f) ELSE 1)

\* C9: the onset indices are strictly increasing and each is a frame index
\* below numFrames
C9_OnsetsIncreasing ==
  onsetPc = "done" =>
    /\ \A i, j \in DOMAIN onsets : i < j => onsets[i] < onsets[j]
    /\ \A i \in DOMAIN onsets : onsets[i] >= 0 /\ onsets[i] < Len(flux)

C9_Witness ==
  /\ onsetPc = "done"
  /\ Len(onsets) >= 2
  /\ LastFrame \in OnsetFrames

\* C10 as stated: neither frame 0 nor the last frame is ever an onset
C10_BoundaryNeverOnset ==
  onsetPc = "done" => (0 \notin OnsetFrames /\ LastFrame \notin OnsetFrames)

\* C10 amended: frame 0 is never an onset; the last frame (when it is not
\* frame 0) is an onset exactly when its flux exceeds the threshold and is
\* >= the flux of the frame before it, the missing right neighbour being 0
C10_FirstNeverLastAsPeak ==
  onsetPc = "done" =>
    /\ 0 \notin OnsetFrames
    /\ LastFrame >= 1 =>
         (LastFrame \in OnsetFrames
            <=> (AboveThreshold(LastFrame)
                 /\ flux[LastFrame + 1] >= flux[LastFrame]))

C10_Witness ==
  /\ onsetPc = "done"
  /\ LastFrame >= 1
  /\ LastFrame \in OnsetFrames
  /\ AboveThreshold(0)
  /\ flux[1] >= flux[2]

----------------------------------------------------------------------------
(* Run extraction: collectRuns.  The signal is predicate(values[i], i) for *)
(* every frame i; frames are numbered from 0.                              *)

RECURSIVE collectRunsLoop(_, _, _, _, _)
\* the loop of collectRuns at frame i, then the flush after the loop
collectRunsLoop(holds, minLength, i, start, runs) ==
  IF i >= Len(holds)
    THEN IF start >= 0 /\ Len(holds) - start >= minLength
           THEN Append(runs, <<start, Len(holds) - 1>>)
           ELSE runs
  ELSE IF holds[i + 1]
    THEN collectRunsLoop(holds, minLength, i + 1, IF start < 0 THEN i ELSE start, runs)
  ELSE IF start >= 0
    THEN collectRunsLoop(holds, minLength, i + 1, -1,
                         IF i - start >= minLength
                           THEN Append(runs, <<start, i - 1>>) ELSE runs)
  ELSE collectRunsLoop(holds, minLength, i + 1, start, runs)

\* variant: a run still open after the last frame is dropped
collectRuns_noFlush(holds, minLength) ==
  SelectSeq(collectRunsLoop(holds, minLength, 0, -1, << >>),
            LAMBDA r : r[2] < Len(holds) - 1)

collectRuns(holds, minLength) == collectRunsLoop(holds, minLength, 0, -1, << >>)

RunSignals == UNION {[1..n -> BOOLEAN] : n \in 1..MaxRunLen}

notRunVars == <<pipeVars, bandVars, onsetVars, fftVars, frameVars, faultVars, lateVars>>

InitRuns ==
  /\ PipelineIdle /\ BandsIdle /\ OnsetsIdle
  /\ FftIdle /\ FrameIdle /\ FaultsIdle /\ LateIdle
  /\ runSignal \in RunSignals
  /\ runMin \in 1..MaxRunMin
  /\ runOriginal = runSignal
  /\ runResults = << >>

\* variant: the frames visited are cleared in the caller's array
CallCollectRuns_clearing ==
  /\ Len(runResults) < 2
  /\ runResults' = Append(runResults, collectRuns(runSignal, runMin))
  /\ runSignal' = [i \in DOMAIN runSignal |-> FALSE]
  /\ UNCHANGED <<runMin, runOriginal, notRunVars>>

\* one call collectRuns(values, predicate, minLength); the function only
\* reads values
CallCollectRuns ==
  /\ Len(runResults) < 2
  /\ runResults' = Append(runResults, collectRuns(runSignal, runMin))
  /\ UNCHANGED <<runSignal, runMin, runOriginal, notRunVars>>

NextRuns == CallCollectRuns

SpecRuns == InitRuns /\ [][NextRuns]_vars

----------------------------------------------------------------------------
(* Properties of run extraction *)

RunHolds(f) == f >= 0 /\ f < Len(runSignal) /\ runSignal[f + 1]
MaximalRuns ==
  {r \in (0..(Len(runSignal) - 1)) \X (0..(Len(runSignal) - 1)) :
     /\ r[1] <= r[2]
     /\ \A f \in r[1]..r[2] : RunHolds(f)
     /\ ~RunHolds(r[1] - 1)
     /\ ~RunHolds(r[2] + 1)}
QualifyingRuns == {r \in MaximalRuns : r[2] - r[1] + 1 >= runMin}

\* C18: collectRuns returns exactly the maximal runs of length >= minLength,
\* each once, in ascending order, a run open at the last frame included
C18_CollectRunsExact ==
  \A c \in DOMAIN runResults :
    LET result == runResults[c] IN
    /\ {result[k] : k \in DOMAIN result} = QualifyingRuns
    /\ \A k \in DOMAIN result :
         /\ 0 <= result[k][1]
         /\ result[k][1] <= result[k][2]
         /\ result[k][2] < Len(runSignal)
    /\ \A j, k \in DOMAIN result : j < k => result[j][2] < result[k][1]

C18_Witness ==
  /\ Len(runResults) >= 1
  /\ \E k \in DOMAIN runResults[1] : runResults[1][k][2] = Len(runSignal) - 1
  /\ MaximalRuns # QualifyingRuns

----------------------------------------------------------------------------
(* Properties of peak picking on the flux of a run *)

IsLocalPeak(f) == At(flux, f) >= At(flux, f - 1) /\ At(flux, f) >= At(flux, f + 1)

----------------------------------------------------------------------------
(* Transform engine: lib/fft.js.  Arrays are sequences of integers over    *)
(* the common denominator fftDen; the lengths 2 and 4 have twiddles in     *)
(* {-1, 0, 1}, taken at their exact values (Math.cos(pi/2) is 0 here).     *)

\* variant: the lower bound is missing
isPowerOfTwo_noLowerBound(value) == value <= 1 \/ BitAnd(value, value - 1) = 0

isPowerOfTwo(value) == value > 1 /\ BitAnd(value, value - 1) = 0

\* variant: the sign of the sines is not flipped for the inverse transform
buildTwiddles_forwardOnly(size, inverse) ==
  LET half == size \div 2
  IN [cos |-> [i \in 1..half |-> IF i = 1 THEN 1 ELSE 0],
      sin |-> [i \in 1..half |-> IF i = 1 THEN 0 ELSE -1]]

\* cos and sin of 2*pi*i/size for i < size/2 and size in {2, 4}; the tables
\* of a larger size are kept by name
buildTwiddles(size, inverse) ==
  LET half == size \div 2
      sign == IF inverse THEN 1 ELSE -1
  IN IF size > 4 THEN [cos |-> <<"cos", size>>, sin |-> <<"sin", size, sign>>]
     ELSE [cos |-> [i \in 1..half |-> IF i = 1 THEN 1 ELSE 0],
           sin |-> [i \in 1..half |-> IF i = 1 THEN 0 ELSE sign]]

twiddleKey(size, inverse) == <<size, IF inverse THEN "inv" ELSE "fwd">>

\* variant: the cache is not consulted
getTwiddles_noLookup(store, size, inverse) ==
  [cache |-> [k \in DOMAIN store.cache \cup {twiddleKey(size, inverse)} |->
                IF k = twiddleKey(size, inverse) THEN buildTwiddles(size, inverse)
                ELSE store.cache[k]],
   builds |-> Append(store.builds, twiddleKey(size, inverse))]

\* the cache and the list of tables built so far, after getTwiddles(size,
\* inverse); the tables it returns are cache[twiddleKey(size, inverse)]
getTwiddles(store, size, inverse) ==
  IF twiddleKey(size, inverse) \in DOMAIN store.cache THEN store
  ELSE [cache |-> [k \in DOMAIN store.cache \cup {twiddleKey(size, inverse)} |->
                     IF k = twiddleKey(size, inverse) THEN buildTwiddles(size, inverse)
                     ELSE store.cache[k]],
        builds |-> Append(store.builds, twiddleKey(size, inverse))]

EmptyCache == [cache |-> << >>, builds |-> << >>]

\* the module warms the 2048 tables when it is loaded
WarmCache == getTwiddles(getTwiddles(EmptyCache, 2048, FALSE), 2048, TRUE)

RECURSIVE reverseCarry(_, _)
\* while (j & bit) { j ^= bit; bit >>= 1 }  j ^= bit
reverseCarry(j, bit) ==
  IF bit = 0 THEN j
  ELSE IF (j \div bit) % 2 = 1 THEN reverseCarry(j - bit, bit \div 2)
  ELSE j + bit

swapAt(array, i, j) ==
  [k \in DOMAIN array |-> IF k = i + 1 THEN array[j + 1]
                          ELSE IF k = j + 1 THEN array[i + 1]
                          ELSE array[k]]

RECURSIVE bitReversal(_, _, _, _)
\* the bit-reversal permutation from index i on, j being the reversed index
\* of i - 1
bitReversal(re, im, i, j) ==
  IF i >= Len(re) THEN [re |-> re, im |-> im]
  ELSE LET j2 == reverseCarry(j, Len(re) \div 2)
       IN IF i < j2
            THEN bitReversal(swapAt(re, i, j2), swapAt(im, i, j2), i + 1, j2)
            ELSE bitReversal(re, im, i + 1, j2)

RECURSIVE butterflies(_, _, _, _, _, _)
\* the butterfly passes from (step, block, i) on
butterflies(re, im, tw, step, block, i) ==
  LET size == Len(re)
      halfStep == step \div 2
  IN IF step > size THEN [re |-> re, im |-> im]
     ELSE IF block >= size THEN butterflies(re, im, tw, step * 2, 0, 0)
     ELSE IF i >= halfStep THEN butterflies(re, im, tw, step, block + step, 0)
     ELSE LET stride == size \div step
              wr == tw.cos[i * stride + 1]
              wi == tw.sin[i * stride + 1]
              even == block + i
              odd == even + halfStep
              tr == wr * re[odd + 1] - wi * im[odd + 1]
              ti == wr * im[odd + 1] + wi * re[odd + 1]
          IN butterflies([re EXCEPT ![odd + 1] = re[even + 1] - tr,
                                    ![even + 1] = re[even + 1] + tr],
                         [im EXCEPT ![odd + 1] = im[even + 1] - ti,
                                    ![even + 1] = im[even + 1] + ti],
                         tw, step, block, i + 1)

\* fft(re, im, inverse) on arrays over the denominator den: the error thrown
\* (<< >> when none), the arrays, the denominator and the cache afterwards
fft(re, im, den, store, inverse) ==
  LET size == Len(re)
      unchanged == [re |-> re, im |-> im, den |-> den, store |-> store]
  IN IF size # Len(im)
       THEN [error |-> <<"FFT arrays must have matching lengths.">>] @@ unchanged
     ELSE IF ~isPowerOfTwo(size)
       THEN [error |-> <<"FFT length must be a power of two.">>] @@ unchanged
     ELSE LET permuted == bitReversal(re, im, 1, 0)
              looked == getTwiddles(store, size, inverse)
              passed == butterflies(permuted.re, permuted.im,
                                    looked.cache[twiddleKey(size, inverse)], 2, 0, 0)
          IN [error |-> << >>,
              re |-> passed.re,
              im |-> passed.im,
              den |-> IF inverse THEN den * size ELSE den,
              store |-> looked]

FftLengths == {0, 1, 2, 3, 4}
FftSampleValues == {-1, 0, 2}
FftArrays == UNION {[1..n -> FftSampleValues] : n \in FftLengths}

notFftVars == <<pipeVars, bandVars, onsetVars, runVars, frameVars, faultVars, lateVars>>

InitFft ==
  /\ PipelineIdle /\ BandsIdle /\ OnsetsIdle
  /\ RunsIdle /\ FrameIdle /\ FaultsIdle /\ LateIdle
  /\ fftRe \in FftArrays
  /\ fftIm \in FftArrays
  /\ fftDen = 1
  /\ fftOriginal = [re |-> fftRe, im |-> fftIm]
  /\ fftCalls = << >>
  /\ fftError = << >>
  /\ twiddleCache = WarmCache.cache
  /\ twiddleBuilds = WarmCache.builds

\* one call fft(re, im, inverse); a throw ends the use of the arrays
CallFft(inverse) ==
  /\ Len(fftCalls) < MaxFftCalls
  /\ fftError = << >>
  /\ LET out == fft(fftRe, fftIm, fftDen,
                    [cache |-> twiddleCache, builds |-> twiddleBuilds], inverse)
     IN /\ fftRe' = out.re
        /\ fftIm' = out.im
        /\ fftDen' = out.den
        /\ fftError' = out.error
        /\ twiddleCache' = out.store.cache
        /\ twiddleBuilds' = out.store.builds
  /\ fftCalls' = Append(fftCalls, inverse)
  /\ UNCHANGED <<fftOriginal, notFftVars>>

Forward == CallFft(FALSE)
Inverse == CallFft(TRUE)

NextFft ==
  \/ Forward
  \/ Inverse

SpecFft == InitFft /\ [][NextFft]_vars

----------------------------------------------------------------------------
(* Properties of the transform engine *)

FftThrew == fftError # << >>
FftCalled == fftCalls # << >>
FftUnmodified ==
  fftRe = fftOriginal.re /\ fftIm = fftOriginal.im /\ fftDen = 1
RECURSIVE IsPow2(_)
\* n = 2^k for some k >= 0
IsPow2(n) == n = 1 \/ (n > 1 /\ n % 2 = 0 /\ IsPow2(n \div 2))

\* C15 as stated: fft throws whenever the length is not a power of two or
\* the lengths differ, leaving both arrays unmodified, and completes for
\* every power-of-two length
C15_ThrowsUnlessPowerOfTwo ==
  FftCalled =>
    /\ (Len(fftRe) # Len(fftIm) \/ ~IsPow2(Len(fftRe))) => (FftThrew /\ FftUnmodified)
    /\ (Len(fftRe) = Len(fftIm) /\ IsPow2(Len(fftRe))) => ~FftThrew

\* C15 amended: fft throws exactly when the lengths differ or the length is
\* not a power of two >= 2 (so also for lengths 0 and 1), and then neither
\* array is modified
C15_ThrowsUnlessPowerOfTwoAtLeast2 ==
  FftCalled =>
    /\ FftThrew <=> (Len(fftRe) # Len(fftIm) \/ ~IsPow2(Len(fftRe)) \/ Len(fftRe) < 2)
    /\ FftThrew => FftUnmodified

C15_Witness ==
  /\ FftThrew
  /\ Len(fftRe) = 1
  /\ Len(fftIm) = 1
  /\ fftRe[1] # 0

\* C16: a forward transform followed by an inverse transform of the same
\* arrays restores the original values
C16_RoundTrip ==
  (fftCalls = <<FALSE, TRUE>> /\ ~FftThrew) =>
    /\ \A i \in DOMAIN fftRe : fftRe[i] = fftOriginal.re[i] * fftDen
    /\ \A i \in DOMAIN fftIm : fftIm[i] = fftOriginal.im[i] * fftDen

C16_Witness ==
  /\ fftCalls = <<FALSE, TRUE>>
  /\ ~FftThrew
  /\ Len(fftRe) = 4
  /\ fftDen = 4
  /\ fftOriginal.re = <<2, -1, 0, 2>>
  /\ fftOriginal.im = <<0, 2, -1, -1>>
  /\ fftRe = <<8, -4, 0, 8>>

----------------------------------------------------------------------------
(* One frame of the spectral analyzer: fillMagnitudes, writeBandFrame,     *)
(* writeSpectrogramFrame.  Magnitudes are integers in units of 1e-13 and   *)
(* powers of ten, so that the decibel value of every ratio is exact.       *)

EPSILON == 10
SPECTROGRAM_MIN_DB == -100

RECURSIVE SumBins(_, _, _)
\* magnitudes[lowBin] + ... + magnitudes[highBin]
SumBins(magnitudes, lowBin, highBin) ==
  IF lowBin > highBin THEN 0
  ELSE magnitudes[lowBin + 1] + SumBins(magnitudes, lowBin + 1, highBin)

RECURSIVE peakFrom(_, _, _)
\* the peak loop of fillMagnitudes from bin i on
peakFrom(magnitudes, i, peak) ==
  IF i >= Len(magnitudes) THEN peak
  ELSE peakFrom(magnitudes, i + 1,
                IF magnitudes[i + 1] > peak THEN magnitudes[i + 1] ELSE peak)

RECURSIVE largestRounded(_, _, _, _)
\* the largest k in low..high with (2k - 1)^2 * den <= 4 * 255^2 * num, the
\* condition holding at low
largestRounded(low, high, num, den) ==
  IF low >= high THEN low
  ELSE LET mid == (low + high + 1) \div 2
       IN IF (2 * mid - 1) * (2 * mid - 1) * den <= 260100 * num
            THEN largestRounded(mid, high, num, den)
            ELSE largestRounded(low, mid - 1, num, den)

\* Math.round(Math.sqrt(min(1, num / den)) * 255): the largest k with
\* (k - 1/2)^2 <= 255^2 * min(1, num / den)
roundSqrt255(num, den) ==
  largestRounded(0, 255, IF num > den THEN den ELSE num, den)

RECURSIVE Log10(_)
\* log10 of a power of ten
Log10(value) == IF value <= 1 THEN 0 ELSE 1 + Log10(value \div 10)

\* 20 * log10(max(magnitude / peak, 1e-12)) for powers of ten
ratioDb(magnitude, peak) ==
  IF magnitude = 0 THEN -240
  ELSE Max2(20 * (Log10(magnitude) - Log10(peak)), -240)

\* the frame's row of destination after writeBandFrame, and the number of
\* divisions by peak it performed; epsilon is EPSILON in the unit of the
\* magnitudes
writeBandFrameAt(epsilon, destination, magnitudes, peak, ranges) ==
  IF peak <= epsilon
    THEN [row |-> [b \in DOMAIN destination |-> 0], divisions |-> 0]
  ELSE [row |-> [b \in DOMAIN destination |->
                   LET range == ranges[b]
                       sum == SumBins(magnitudes, range.lowBin, range.highBin)
                       count == range.highBin - range.lowBin + 1
                   IN clampInt(roundSqrt255(sum, count * peak), 0, 255)],
        divisions |-> Len(ranges)]

\* variant: a peak equal to epsilon is not taken as silent
writeBandFrame_strictGuard(destination, magnitudes, peak, ranges) ==
  IF peak < EPSILON
    THEN [row |-> [b \in DOMAIN destination |-> 0], divisions |-> 0]
  ELSE [row |-> [b \in DOMAIN destination |->
                   LET range == ranges[b]
                       sum == SumBins(magnitudes, range.lowBin, range.highBin)
                       count == range.highBin - range.lowBin + 1
                   IN clampInt(roundSqrt255(sum, count * peak), 0, 255)],
        divisions |-> Len(ranges)]

writeBandFrame(destination, magnitudes, peak, ranges) ==
  writeBandFrameAt(EPSILON, destination, magnitudes, peak, ranges)

\* the frame's row of the tile after writeSpectrogramFrame, and the number
\* of divisions by peak it performed
writeSpectrogramFrame(tileRow, magnitudes, peak) ==
  IF peak <= EPSILON
    THEN [row |-> [bin \in DOMAIN tileRow |-> 0], divisions |-> 0]
  ELSE [row |-> [bin \in DOMAIN tileRow |->
                   LET db == ratioDb(magnitudes[bin], peak)
                   IN clampInt(MathRound((db - SPECTROGRAM_MIN_DB) * 255,
                                         -SPECTROGRAM_MIN_DB), 0, 255)],
        divisions |-> Len(tileRow)]

MagValues == {0, 1, 10, 100, 1000}
FrameNumBins == 2
FrameMagnitudes == [1..FrameNumBins -> MagValues]
FrameRanges ==
  {[lowBin |-> lo, highBin |-> hi] :
     lo \in 0..(FrameNumBins - 1), hi \in 0..(FrameNumBins - 1)}
FrameBandRanges ==
  {rs \in UNION {[1..n -> FrameRanges] : n \in 1..2} :
     \A b \in DOMAIN rs : rs[b].lowBin <= rs[b].highBin}

notFrameVars == <<pipeVars, bandVars, onsetVars, runVars, fftVars, faultVars, lateVars>>

\* the rows of the frame are zero as new Uint8Array leaves them
InitFrame ==
  /\ PipelineIdle /\ BandsIdle /\ OnsetsIdle
  /\ RunsIdle /\ FftIdle /\ FaultsIdle /\ LateIdle
  /\ frMags \in FrameMagnitudes
  /\ frPeak = << >>
  /\ frRanges \in FrameBandRanges
  /\ frBands = [b \in DOMAIN frRanges |-> 0]
  /\ frCells = [bin \in 1..FrameNumBins |-> 0]
  /\ frDivisions = 0
  /\ frPc = "ready"

FillMagnitudes ==
  /\ frPc = "ready"
  /\ frPeak' = <<peakFrom(frMags, 0, 0)>>
  /\ frPc' = "filled"
  /\ UNCHANGED <<frMags, frRanges, frBands, frCells, frDivisions, notFrameVars>>

WriteBandFrame ==
  /\ frPc = "filled"
  /\ LET out == writeBandFrame(frBands, frMags, frPeak[1], frRanges)
     IN /\ frBands' = out.row
        /\ frDivisions' = frDivisions + out.divisions
  /\ frPc' = "banded"
  /\ UNCHANGED <<frMags, frPeak, frRanges, frCells, notFrameVars>>

WriteSpectrogramFrame ==
  /\ frPc = "banded"
  /\ LET out == writeSpectrogramFrame(frCells, frMags, frPeak[1])
     IN /\ frCells' = out.row
        /\ frDivisions' = frDivisions + out.divisions
  /\ frPc' = "done"
  /\ UNCHANGED <<frMags, frPeak, frRanges, frBands, notFrameVars>>

NextFrame ==
  \/ FillMagnitudes
  \/ WriteBandFrame
  \/ WriteSpectrogramFrame

SpecFrame == InitFrame /\ [][NextFrame]_vars

----------------------------------------------------------------------------
(* Properties of a frame of the spectral analyzer *)

\* C13: for a frame whose peak magnitude is <= epsilon, all band energies
\* and all spectrogram cells of the frame are 0 and no division by the peak
\* is performed
C13_SilentFrameIsZero ==
  (frPc \in {"banded", "done"} /\ frPeak[1] <= EPSILON) =>
    /\ \A b \in DOMAIN frBands : frBands[b] = 0
    /\ \A bin \in DOMAIN frCells : frCells[bin] = 0
    /\ frDivisions = 0

C13_Witness ==
  /\ frPc = "done"
  /\ frPeak[1] = EPSILON
  /\ \E bin \in DOMAIN frMags : frMags[bin] = 1

----------------------------------------------------------------------------
(* Signal statistics and the fault rules: computeRmsEnvelope,              *)
(* computePhaseCorrelation, detectFaults.  A sample v stands for v / 2, so *)
(* -2 is -1.0, 1 is 0.5; thresholds are compared exactly as fractions.     *)

Abs(v) == IF v < 0 THEN -v ELSE v
CeilDiv(a, b) == (a + b - 1) \div b
\* value * scale < limit for value >= 0, scale > 0, limit >= 1, without
\* forming the product
TimesBelow(value, scale, limit) == value <= (limit - 1) \div scale
SampleAt(samples, i) == samples[i + 1]

RECURSIVE SumOver(_, _, _)
\* sum of terms[i] for i in from..(to - 1)
SumOver(terms, from, to) ==
  IF from >= to THEN 0 ELSE terms[from] + SumOver(terms, from + 1, to)

\* sumSquares and the sample count of every frame, as computeRmsEnvelope
\* forms them before the division and the square root
computeRmsEnvelope(samples, nFrames, hop) ==
  [f \in 1..nFrames |->
     LET start == (f - 1) * hop
         end == Min2(Len(samples), start + hop)
     IN IF start >= Len(samples) THEN [sumSquares |-> 0, count |-> 1]
        ELSE [sumSquares |->
                SumOver([i \in 0..(Len(samples) - 1) |-> SampleAt(samples, i) * SampleAt(samples, i)],
                        start, end),
              count |-> Max2(1, end - start)]]

\* correlation per frame as num / sqrt(denSq), 0 being 0 / sqrt(1); the
\* denominator sqrt(LL * RR) / 4 is <= 1e-12 exactly when LL * RR = 0
computePhaseCorrelation(left, right, nFrames, hop) ==
  [f \in 1..nFrames |->
     LET start == (f - 1) * hop
         end == Min2(Len(left), start + hop)
         sumProduct ==
           SumOver([i \in 0..(Len(left) - 1) |-> SampleAt(left, i) * SampleAt(right, i)],
                   start, end)
         sumLeftSquares ==
           SumOver([i \in 0..(Len(left) - 1) |-> SampleAt(left, i) * SampleAt(left, i)],
                   start, end)
         sumRightSquares ==
           SumOver([i \in 0..(Len(right) - 1) |-> SampleAt(right, i) * SampleAt(right, i)],
                   start, end)
     IN IF start >= Len(left) THEN [num |-> 0, denSq |-> 1]
        ELSE IF sumLeftSquares * sumRightSquares <= 0 THEN [num |-> 0, denSq |-> 1]
        ELSE [num |-> sumProduct, denSq |-> sumLeftSquares * sumRightSquares]]

\* 0.5 * (1 - cos(2 * pi * i / (size - 1))) times 4, for size in {2, 4}
createHannWindow(size) ==
  [i \in 1..size |-> IF size = 4 /\ i \in {2, 3} THEN 3 ELSE 0]

fillWindowedSignal(samples, start, fftN, window) ==
  [i \in 1..fftN |->
     IF start + i - 1 < Len(samples)
       THEN samples[start + i] * window[i] ELSE 0]

\* Math.hypot(re[i], im[i]) for the bins below fftN / 2, rounded down to
\* 1/16 of the unit of re and im
fillMagnitudes(re, im) ==
  [bin \in 1..(Len(re) \div 2) |->
     LET square == 256 * (re[bin] * re[bin] + im[bin] * im[bin])
     IN CHOOSE root \in 0..(16 * (Abs(re[bin]) + Abs(im[bin]))) :
          root * root <= square /\ (root + 1) * (root + 1) > square]

RECURSIVE pushRuns(_, _, _, _, _)
\* for (const [start, end] of runs) faults.push({type, severity, ...})
pushRuns(faults, runs, k, type, severity) ==
  IF k > Len(runs) THEN faults
  ELSE pushRuns(Append(faults, [type |-> type, severity |-> severity,
                                frameStart |-> runs[k][1],
                                frameEnd |-> runs[k][2]]),
                runs, k + 1, type, severity)

\* variant: the end frame is taken from the run length
clipFault_endFromLength(runStart, last, hop) ==
  [type |-> "clipping", severity |-> "CRIT",
   frameStart |-> runStart \div hop,
   frameEnd |-> (last - runStart) \div hop]

\* the fault pushed for a run of clipped samples runStart..last
clipFault(runStart, last, hop) ==
  [type |-> "clipping", severity |-> "CRIT",
   frameStart |-> runStart \div hop,
   frameEnd |-> last \div hop]

\* |v / 2| >= 0.99
clipped(l, r) == 100 * Abs(l) >= 198 \/ 100 * Abs(r) >= 198

RECURSIVE clippingLoop(_, _, _, _, _, _)
\* the loop of detectClippingFaults from sample i on, then the flush of a
\* run that reaches the end of the buffer
clippingLoop(faults, left, right, hop, i, runStart) ==
  IF i >= Len(left)
    THEN IF runStart >= 0 /\ Len(left) - runStart >= 2
           THEN Append(faults, clipFault(runStart, Len(left) - 1, hop))
           ELSE faults
  ELSE IF clipped(SampleAt(left, i), SampleAt(right, i))
    THEN clippingLoop(faults, left, right, hop, i + 1,
                      IF runStart < 0 THEN i ELSE runStart)
  ELSE IF runStart >= 0
    THEN clippingLoop(IF i - runStart >= 2
                        THEN Append(faults, clipFault(runStart, i - 1, hop))
                        ELSE faults,
                      left, right, hop, i + 1, -1)
  ELSE clippingLoop(faults, left, right, hop, i + 1, runStart)

\* variant: a run of a single sample is reported too
detectClippingFaults_anyRun(faults, left, right, hop) ==
  LET hit == [i \in DOMAIN left |-> clipped(left[i], right[i])]
      runs == collectRuns(hit, 1)
  IN faults \o [k \in DOMAIN runs |-> clipFault(runs[k][1], runs[k][2], hop)]

detectClippingFaults(faults, left, right, hop) ==
  clippingLoop(faults, left, right, hop, 0, -1)

\* 0.5 * (rmsLeft[i] + rmsRight[i]) < 0.001, with rms = sqrt(sumSquares /
\* count) / 2: sqrt(x) + sqrt(y) < 1/250 for x, y the two quotients
belowSilence(l, r) ==
  /\ TimesBelow(l.sumSquares, 62500, l.count)
  /\ TimesBelow(r.sumSquares, 62500, r.count)
  /\ LET whole == l.count * r.count
         x == 62500 * l.sumSquares * r.count
         y == 62500 * r.sumSquares * l.count
     IN /\ x + y < whole
        /\ 4 * x * y < (whole - x - y) * (whole - x - y)

\* variant: the window of 2 seconds of the mono rule is used
detectSilenceFaults_monoWindow(faults, rmsLeft, rmsRight, sr, hop) ==
  LET minFrames == Max2(1, CeilDiv(2 * sr, hop))
      combined == [i \in DOMAIN rmsLeft |-> belowSilence(rmsLeft[i], rmsRight[i])]
  IN pushRuns(faults, collectRuns(combined, minFrames), 1, "silence", "WARN")

detectSilenceFaults(faults, rmsLeft, rmsRight, sr, hop) ==
  LET minFrames == Max2(1, CeilDiv(sr, 2 * hop))
      combined == [i \in DOMAIN rmsLeft |-> belowSilence(rmsLeft[i], rmsRight[i])]
  IN pushRuns(faults, collectRuns(combined, minFrames), 1, "silence", "WARN")

\* |mean| > 0.01 with mean = sum of (l + r) / (4 * length)
detectDcOffsetFault(faults, left, right, nFrames) ==
  LET sum == SumOver([i \in 0..(Len(left) - 1) |-> SampleAt(left, i) + SampleAt(right, i)],
                     0, Len(left))
  IN IF 25 * Abs(sum) > Len(left)
       THEN Append(faults, [type |-> "dc_offset", severity |-> "INFO",
                            frameStart |-> 0,
                            frameEnd |-> Max2(0, nFrames - 1)])
       ELSE faults

\* variant: a run needs two frames
detectSpectralAnomalies_minTwo(faults, fluxArr, medianArr) ==
  LET above == [i \in DOMAIN fluxArr |->
                  fluxArr[i] > ONSET_FACTOR * Max2(medianArr[i], ONSET_FLOOR)]
  IN pushRuns(faults, collectRuns(above, 2), 1, "spectral_anomaly", "WARN")

detectSpectralAnomalies(faults, fluxArr, medianArr) ==
  LET above == [i \in DOMAIN fluxArr |->
                  fluxArr[i] > ONSET_FACTOR * Max2(medianArr[i], ONSET_FLOOR)]
  IN pushRuns(faults, collectRuns(above, 1), 1, "spectral_anomaly", "WARN")

\* variant: a single inverted frame is reported
detectPhaseInversionFaults_anyLength(faults, phaseCorrelation, sr, hop) ==
  LET inverted == [i \in DOMAIN phaseCorrelation |->
                     /\ phaseCorrelation[i].num < 0
                     /\ 4 * phaseCorrelation[i].num * phaseCorrelation[i].num
                          > phaseCorrelation[i].denSq]
  IN pushRuns(faults, collectRuns(inverted, 1), 1, "phase_inversion", "WARN")

\* num / sqrt(denSq) < -0.5
detectPhaseInversionFaults(faults, phaseCorrelation, sr, hop) ==
  LET minFrames == Max2(1, CeilDiv(sr, 5 * hop))
      inverted == [i \in DOMAIN phaseCorrelation |->
                     /\ phaseCorrelation[i].num < 0
                     /\ 4 * phaseCorrelation[i].num * phaseCorrelation[i].num
                          > phaseCorrelation[i].denSq]
  IN pushRuns(faults, collectRuns(inverted, minFrames), 1, "phase_inversion", "WARN")

RECURSIVE peakOver(_, _, _, _)
\* peak = Math.max(peak, Math.abs(l), Math.abs(r)) over the samples from i on
peakOver(left, right, i, peak) ==
  IF i >= Len(left) THEN peak
  ELSE peakOver(left, right, i + 1,
                Max2(peak, Max2(Abs(SampleAt(left, i)), Abs(SampleAt(right, i)))))

\* variant: nothing is reported for a track without signal
detectDynamicRangeFault_loudOnly(faults, left, right, nFrames) ==
  LET peak == peakOver(left, right, 0, 0)
      squares == SumOver([i \in 0..(Len(left) - 1) |-> SampleAt(left, i) * SampleAt(left, i)
                                    + SampleAt(right, i) * SampleAt(right, i)],
                         0, Len(left))
  IN IF peak <= 0 THEN faults
     ELSE Append(faults, [type |-> "dynamic_range", severity |-> "INFO",
                          frameStart |-> 0,
                          frameEnd |-> Max2(0, nFrames - 1),
                          crestFactorDb |->
                            [num |-> 2 * Max2(1, Len(left)) * peak * peak,
                             den |-> squares]])

\* crestFactorDb is 10 * log10(num / den): (peak / rms)^2 is
\* 2 * n * peak^2 / sum of (l^2 + r^2), and 0 dB is 1 / 1; a peak on the
\* sample grid is <= 1e-12 exactly when it is 0, and then rms is 0 as well
detectDynamicRangeFault(faults, left, right, nFrames) ==
  LET peak == peakOver(left, right, 0, 0)
      squares == SumOver([i \in 0..(Len(left) - 1) |-> SampleAt(left, i) * SampleAt(left, i)
                                    + SampleAt(right, i) * SampleAt(right, i)],
                         0, Len(left))
  IN Append(faults, [type |-> "dynamic_range", severity |-> "INFO",
                     frameStart |-> 0,
                     frameEnd |-> Max2(0, nFrames - 1),
                     crestFactorDb |->
                       IF peak <= 0 THEN [num |-> 1, den |-> 1]
                       ELSE [num |-> 2 * Max2(1, Len(left)) * peak * peak,
                             den |-> squares]])

\* sqrt(sumSquares / count) / 2 < 0.0001 for the difference of the channels
detectMonoSegmentFaults(faults, left, right, nFrames, sr, hop) ==
  LET minFrames == Max2(1, CeilDiv(2 * sr, hop))
      collapsed ==
        [f \in 1..nFrames |->
           LET start == (f - 1) * hop
               end == Min2(Len(left), start + hop)
           IN IF start >= Len(left) THEN TRUE
              ELSE TimesBelow(
                     SumOver([i \in 0..(Len(left) - 1) |-> (SampleAt(left, i) - SampleAt(right, i))
                                        * (SampleAt(left, i) - SampleAt(right, i))],
                             start, end),
                     25000000, Max2(1, end - start))]
  IN pushRuns(faults, collectRuns(collapsed, minFrames), 1, "mono_segment", "INFO")

\* the seven rules in the order detectFaults calls them
detectFaults(left, right, nFrames, sr, hop, rmsLeft, rmsRight, fluxArr, medianArr, phaseCorrelation) ==
  LET clipping == detectClippingFaults(<< >>, left, right, hop)
      silence == detectSilenceFaults(clipping, rmsLeft, rmsRight, sr, hop)
      dcOffset == detectDcOffsetFault(silence, left, right, nFrames)
      anomalies == detectSpectralAnomalies(dcOffset, fluxArr, medianArr)
      inversion == detectPhaseInversionFaults(anomalies, phaseCorrelation, sr, hop)
      dynamicRange == detectDynamicRangeFault(inversion, left, right, nFrames)
  IN detectMonoSegmentFaults(dynamicRange, left, right, nFrames, sr, hop)

\* band energies of one channel: per frame, the windowed signal, its
\* transform, the magnitudes and the row writeBandFrame leaves; on the
\* sample grid 1e-12 is below one unit, so epsilon is 0 there
GridEpsilon == 0
GridBandRanges(fftN) ==
  <<[lowBin |-> 0, highBin |-> 0], [lowBin |-> 0, highBin |-> (fftN \div 2) - 1]>>
bandRows(samples, nFrames, hop, fftN) ==
  [f \in 1..nFrames |->
     LET windowed == fillWindowedSignal(samples, (f - 1) * hop, fftN,
                                        createHannWindow(fftN))
         out == fft(windowed, [i \in 1..fftN |-> 0], 1, EmptyCache, FALSE)
         magnitudes == fillMagnitudes(out.re, out.im)
     IN writeBandFrameAt(GridEpsilon, <<0, 0>>, magnitudes,
                         peakFrom(magnitudes, 0, 0), GridBandRanges(fftN)).row]

SampleValues == {-2, 0, 1}
RightSampleValues == {0, 1}
FaultSampleRates == {1, 4, 8}
FaultHopSizes == {1, 2}
FaultFftSizes == {2, 4}
\* spectralFlux of a run: frame 0 has no previous frame
FaultFluxSeqs(n) == {fl \in [1..n -> {0, MaxFlux}] : fl[1] = 0}

notFaultVars == <<pipeVars, bandVars, onsetVars, runVars, fftVars, frameVars, lateVars>>

\* the locals of runPrecompute after validation: two channels of numSamples
\* samples and the sanitized configuration
InitFaults ==
  /\ PipelineIdle /\ BandsIdle /\ OnsetsIdle
  /\ RunsIdle /\ FftIdle /\ FrameIdle /\ LateIdle
  /\ \E n \in 1..MaxSamples :
       /\ sLeft \in [1..n -> SampleValues]
       /\ sRight \in [1..n -> RightSampleValues]
       /\ \E sr \in FaultSampleRates, hop \in FaultHopSizes, fftN \in FaultFftSizes :
            sCfg = [sampleRate |-> sr, hopSize |-> hop, fftSize |-> fftN,
                    numFrames |-> computeNumFrames(n, fftN, hop)]
  /\ sFlux = << >>
  /\ sDerived = << >>
  /\ sFaults = << >>
  /\ sPc = "ready"

\* lines 68-139 of runPrecompute: the envelopes, the STFT loop, the medians
\* and the phase correlation
Analyse ==
  /\ sPc = "ready"
  /\ sFlux' \in FaultFluxSeqs(sCfg.numFrames)
  /\ sDerived' =
       [rmsLeft |-> computeRmsEnvelope(sLeft, sCfg.numFrames, sCfg.hopSize),
        rmsRight |-> computeRmsEnvelope(sRight, sCfg.numFrames, sCfg.hopSize),
        bandsLeft |-> bandRows(sLeft, sCfg.numFrames, sCfg.hopSize, sCfg.fftSize),
        bandsRight |-> bandRows(sRight, sCfg.numFrames, sCfg.hopSize, sCfg.fftSize),
        fluxMedians |-> computeRunningMedian(sFlux', MEDIAN_RADIUS),
        phaseCorrelation |->
          computePhaseCorrelation(sLeft, sRight, sCfg.numFrames, sCfg.hopSize)]
  /\ sPc' = "analysed"
  /\ UNCHANGED <<sLeft, sRight, sCfg, sFaults, notFaultVars>>

\* lines 141-153 of runPrecompute
DetectFaults ==
  /\ sPc = "analysed"
  /\ sFaults' = detectFaults(sLeft, sRight, sCfg.numFrames, sCfg.sampleRate,
                             sCfg.hopSize, sDerived.rmsLeft, sDerived.rmsRight,
                             sFlux, sDerived.fluxMedians, sDerived.phaseCorrelation)
  /\ sPc' = "done"
  /\ UNCHANGED <<sLeft, sRight, sCfg, sFlux, sDerived, notFaultVars>>

NextFaults ==
  \/ Analyse
  \/ DetectFaults

SpecFaults == InitFaults /\ [][NextFaults]_vars

\* detectClippingFaults alone, on longer buffers
ClipSampleValues == {-2, 0, 2}
ClipHopSizes == {1, 2, 3}
InitClipping ==
  /\ PipelineIdle /\ BandsIdle /\ OnsetsIdle
  /\ RunsIdle /\ FftIdle /\ FrameIdle /\ LateIdle
  /\ \E n \in 1..MaxClipLen, hop \in ClipHopSizes :
       /\ sLeft \in [1..n -> ClipSampleValues]
       /\ sRight \in [1..n -> {0, 2}]
       /\ sCfg = [sampleRate |-> 1, hopSize |-> hop, fftSize |-> 2,
                  numFrames |-> computeNumFrames(n, 2, hop)]
  /\ sFlux = << >>
  /\ sDerived = << >>
  /\ sFaults = << >>
  /\ sPc = "ready"

DetectClipping ==
  /\ sPc = "ready"
  /\ sFaults' = detectClippingFaults(sFaults, sLeft, sRight, sCfg.hopSize)
  /\ sPc' = "done"
  /\ UNCHANGED <<sLeft, sRight, sCfg, sFlux, sDerived, notFaultVars>>

NextClipping == DetectClipping

SpecClipping == InitClipping /\ [][NextClipping]_vars

----------------------------------------------------------------------------
(* Properties of the fault rules *)

FaultsOfType(t) == {k \in DOMAIN sFaults : sFaults[k].type = t}
AllZero(samples) == \A i \in DOMAIN samples : samples[i] = 0
TrackPeak ==
  IF \A i \in DOMAIN sLeft : sLeft[i] = 0 /\ sRight[i] = 0 THEN 0
  ELSE CHOOSE v \in 1..2 :
         /\ \E i \in DOMAIN sLeft : Abs(sLeft[i]) = v \/ Abs(sRight[i]) = v
         /\ \A i \in DOMAIN sLeft : Abs(sLeft[i]) <= v /\ Abs(sRight[i]) <= v

\* C11: every fault of the seven rules has frameEnd >= frameStart >= 0
C11_FaultFramesOrdered ==
  sPc = "done" =>
    \A k \in DOMAIN sFaults :
      sFaults[k].frameEnd >= sFaults[k].frameStart /\ sFaults[k].frameStart >= 0

C11_Witness ==
  /\ sPc = "done"
  /\ \E k \in FaultsOfType("clipping") : sFaults[k].frameEnd > sFaults[k].frameStart
  /\ FaultsOfType("silence") # {}
  /\ FaultsOfType("spectral_anomaly") # {}
  /\ FaultsOfType("dynamic_range") # {}

\* C12: the fault list of a run holds exactly one dynamic_range event, INFO,
\* from frame 0 to frame numFrames - 1, with a numeric crest factor, which
\* is 0 dB when the peak of the track is <= epsilon
C12_OneDynamicRangeEvent ==
  sPc = "done" =>
    /\ Cardinality(FaultsOfType("dynamic_range")) = 1
    /\ \A k \in FaultsOfType("dynamic_range") :
         /\ sFaults[k].severity = "INFO"
         /\ sFaults[k].frameStart = 0
         /\ sFaults[k].frameEnd = sCfg.numFrames - 1
         /\ sFaults[k].crestFactorDb.num > 0
         /\ sFaults[k].crestFactorDb.den > 0
         /\ TrackPeak = 0 => sFaults[k].crestFactorDb.num = sFaults[k].crestFactorDb.den

C12_Witness ==
  /\ sPc = "done"
  /\ TrackPeak = 0
  /\ sCfg.numFrames >= 2
  /\ FaultsOfType("dynamic_range") # {}

\* C14: for an all-zero stereo buffer the phase correlation and the band
\* energies of every frame are 0, there is no dc_offset and no clipping
\* fault, and when numFrames >= ceil(0.5 * sampleRate / hopSize) there is
\* exactly one silence fault, WARN, from frame 0 to frame numFrames - 1
C14_AllZeroBuffer ==
  (sPc = "done" /\ AllZero(sLeft) /\ AllZero(sRight)) =>
    /\ \A f \in DOMAIN sDerived.phaseCorrelation : sDerived.phaseCorrelation[f].num = 0
    /\ \A f \in DOMAIN sDerived.bandsLeft :
         \A b \in DOMAIN sDerived.bandsLeft[f] :
           sDerived.bandsLeft[f][b] = 0 /\ sDerived.bandsRight[f][b] = 0
    /\ FaultsOfType("dc_offset") = {}
    /\ FaultsOfType("clipping") = {}
    /\ sCfg.numFrames >= CeilDiv(sCfg.sampleRate, 2 * sCfg.hopSize) =>
         /\ Cardinality(FaultsOfType("silence")) = 1
         /\ \A k \in FaultsOfType("silence") :
              /\ sFaults[k].severity = "WARN"
              /\ sFaults[k].frameStart = 0
              /\ sFaults[k].frameEnd = sCfg.numFrames - 1

C14_Witness ==
  /\ sPc = "done"
  /\ AllZero(sLeft) /\ AllZero(sRight)
  /\ sCfg.numFrames >= 2
  /\ sCfg.sampleRate = 4
  /\ sCfg.numFrames >= CeilDiv(sCfg.sampleRate, 2 * sCfg.hopSize)
  /\ FaultsOfType("silence") # {}

----------------------------------------------------------------------------
(* Properties of the clipping rule *)

ClipHolds(i) ==
  /\ i >= 0 /\ i < Len(sLeft)
  /\ (Abs(sLeft[i + 1]) * 100 >= 198 \/ Abs(sRight[i + 1]) * 100 >= 198)
ClipRuns ==
  {r \in (0..(Len(sLeft) - 1)) \X (0..(Len(sLeft) - 1)) :
     /\ r[1] <= r[2]
     /\ \A i \in r[1]..r[2] : ClipHolds(i)
     /\ ~ClipHolds(r[1] - 1)
     /\ ~ClipHolds(r[2] + 1)}
LongClipRuns == {r \in ClipRuns : r[2] - r[1] + 1 >= 2}

\* C20: the clipping rule emits one CRIT fault for each maximal run of >= 2
\* clipped samples, a run reaching the end of the buffer included, and none
\* for a run of one sample; frameStart is floor(first / hopSize) and
\* frameEnd is floor(last / hopSize)
C20_ClippingPerRun ==
  sPc = "done" =>
    /\ Len(sFaults) = Cardinality(LongClipRuns)
    /\ \A r \in LongClipRuns :
         LET k == 1 + Cardinality({q \in LongClipRuns : q[1] < r[1]})
         IN /\ sFaults[k].type = "clipping"
            /\ sFaults[k].severity = "CRIT"
            /\ sFaults[k].frameStart = r[1] \div sCfg.hopSize
            /\ sFaults[k].frameEnd = r[2] \div sCfg.hopSize

C20_Witness ==
  /\ sPc = "done"
  /\ Len(sFaults) = 1
  /\ \E r \in LongClipRuns : r[2] = Len(sLeft) - 1
  /\ \E r \in ClipRuns : r[1] = r[2]
  /\ sFaults[1].frameEnd > sFaults[1].frameStart

----------------------------------------------------------------------------
(* Properties of the sustained-run rules *)

FrameSamples(f) ==
  {i \in 0..(Len(sLeft) - 1) : i >= f * sCfg.hopSize /\ i < (f + 1) * sCfg.hopSize}
\* the per-frame conditions of the three rules on the sample grid
SilentFrame(f) == \A i \in FrameSamples(f) : sLeft[i + 1] = 0 /\ sRight[i + 1] = 0
MonoFrame(f) == \A i \in FrameSamples(f) : sLeft[i + 1] = sRight[i + 1]
InvertedFrame(f) ==
  LET c == sDerived.phaseCorrelation[f + 1]
  IN c.num < 0 /\ 4 * c.num * c.num > c.denSq

FrameRuns(Holds(_)) ==
  {r \in (0..(sCfg.numFrames - 1)) \X (0..(sCfg.numFrames - 1)) :
     /\ r[1] <= r[2]
     /\ \A f \in r[1]..r[2] : Holds(f)
     /\ r[1] = 0 \/ ~Holds(r[1] - 1)
     /\ r[2] = sCfg.numFrames - 1 \/ ~Holds(r[2] + 1)}
FaultSpans(t) == {<<sFaults[k].frameStart, sFaults[k].frameEnd>> : k \in FaultsOfType(t)}
\* one fault of type t per maximal run of at least least frames, no other
OneFaultPerRun(t, Holds(_), least) ==
  /\ FaultSpans(t) = {r \in FrameRuns(Holds) : r[2] - r[1] + 1 >= least}
  /\ Cardinality(FaultsOfType(t)) = Cardinality(FaultSpans(t))

SilenceWindow == CeilDiv(sCfg.sampleRate, 2 * sCfg.hopSize)
InversionWindow == CeilDiv(sCfg.sampleRate, 5 * sCfg.hopSize)
MonoWindow == CeilDiv(2 * sCfg.sampleRate, sCfg.hopSize)

\* C21: silence, phase_inversion and mono_segment emit one fault per maximal
\* run of at least ceil(0.5 * sr / hop), ceil(0.2 * sr / hop) and
\* ceil(2 * sr / hop) frames, and none for a shorter run
C21_SustainedRunsOnly ==
  sPc = "done" =>
    /\ OneFaultPerRun("silence", SilentFrame, SilenceWindow)
    /\ OneFaultPerRun("phase_inversion", InvertedFrame, InversionWindow)
    /\ OneFaultPerRun("mono_segment", MonoFrame, MonoWindow)

C21_Witness ==
  /\ sPc = "done"
  /\ InversionWindow = 2
  /\ \E k \in FaultsOfType("phase_inversion") : sFaults[k].frameEnd > sFaults[k].frameStart
  /\ FrameRuns(MonoFrame) # {}
  /\ FaultsOfType("mono_segment") = {}

----------------------------------------------------------------------------
(* Properties of the twiddle cache *)

BuiltKeys == {twiddleBuilds[k] : k \in DOMAIN twiddleBuilds}
BuiltOnce ==
  /\ \A i, j \in DOMAIN twiddleBuilds : i # j => twiddleBuilds[i] # twiddleBuilds[j]
  /\ DOMAIN twiddleCache = BuiltKeys
\* a step keeps every entry of the cache as it is, and a call of fft builds
\* at most the tables of its own size and direction
CacheStep ==
  /\ \A key \in DOMAIN twiddleCache :
       key \in DOMAIN twiddleCache' /\ twiddleCache'[key] = twiddleCache[key]
  /\ Len(fftCalls') > Len(fftCalls) =>
       /\ Len(twiddleBuilds') <= Len(twiddleBuilds) + 1
       /\ \A key \in DOMAIN twiddleCache' :
            key \notin DOMAIN twiddleCache =>
              key = twiddleKey(Len(fftRe), fftCalls'[Len(fftCalls')])
       /\ twiddleKey(Len(fftRe), fftCalls'[Len(fftCalls')]) \in DOMAIN twiddleCache =>
            twiddleBuilds' = twiddleBuilds

\* C22: twiddle tables are built at most once per (size, direction); a later
\* call with the same key reuses the cached tables, no entry is evicted or
\* overwritten, and a call for one direction leaves the other direction's
\* tables alone
C22_TwiddlesBuiltOnce == []BuiltOnce /\ [][CacheStep]_vars

C22_Witness ==
  /\ fftCalls = <<FALSE, FALSE>>
  /\ ~FftThrew
  /\ Len(fftRe) = 4
  /\ Len(twiddleBuilds) = 3
  /\ <<4, "inv">> \notin DOMAIN twiddleCache

----------------------------------------------------------------------------
(* Spectral flux in the STFT loop: the two mixed-magnitude buffers.        *)
(* Magnitudes are single-precision values in units of 2^-26, so 2^26 is    *)
(* 1.0 and the values from 1.0 to 2.0 that a Float32Array holds are the    *)
(* multiples of 8.                                                         *)

RECURSIVE float32Spacing(_, _)
\* the distance of neighbouring single-precision values around value: the
\* least power of two with value < 2^24 * spacing
float32Spacing(value, spacing) ==
  IF value < 16777216 * spacing THEN spacing
  ELSE float32Spacing(value, 2 * spacing)

\* the value a Float32Array holds after value is stored into it: the nearest
\* single-precision value, the even one of two equally near
fround(value) ==
  LET spacing == float32Spacing(value, 1)
      quotient == value \div spacing
      rest == value % spacing
  IN IF 2 * rest < spacing THEN quotient * spacing
     ELSE IF 2 * rest > spacing THEN (quotient + 1) * spacing
     ELSE IF quotient % 2 = 0 THEN quotient * spacing
     ELSE (quotient + 1) * spacing

RECURSIVE fluxBins(_, _, _, _, _, _, _, _)
\* the loop over the bins of one frame from bin on: the buffers and the sum
\* of the positive deltas
fluxBins(buffers, prev, curr, left, right, f, bin, sum) ==
  IF bin >= Len(left) THEN [buffers |-> buffers, sum |-> sum]
  ELSE LET mixedMagnitude == (left[bin + 1] + right[bin + 1]) \div 2
           written == [buffers EXCEPT ![curr][bin + 1] = fround(mixedMagnitude)]
           delta == IF f > 0 THEN mixedMagnitude - written[prev][bin + 1] ELSE 0
       IN fluxBins(written, prev, curr, left, right, f, bin + 1,
                   IF delta > 0 THEN sum + delta ELSE sum)

\* variant: prev is pointed at curr without curr taking the other array
fluxFrame_noSwap(buffers, prev, curr, left, right, f) ==
  LET out == fluxBins(buffers, prev, curr, left, right, f, 0, 0)
  IN [buffers |-> out.buffers,
      spectralFlux |-> fround(out.sum \div Len(left)),
      prev |-> curr,
      curr |-> curr]

\* lines 109-125 of the STFT loop for frame f: the flux stored for the frame
\* and the buffers after the swap
fluxFrame(buffers, prev, curr, left, right, f) ==
  LET out == fluxBins(buffers, prev, curr, left, right, f, 0, 0)
  IN [buffers |-> out.buffers,
      spectralFlux |-> fround(out.sum \div Len(left)),
      prev |-> curr,
      curr |-> prev]

FluxNumBins == {1, 2}
LeftMagnitudes == {0, 67108864, 67108872}
RightMagnitudes == {67108864}

notFluxVars ==
  <<pipeVars, bandVars, onsetVars, runVars, fftVars, frameVars, faultVars,
    lodVars, tileVars, anomalyVars, appVars>>

\* lines 87-88: two zeroed arrays of numBins elements
InitFlux ==
  /\ PipelineIdle /\ BandsIdle /\ OnsetsIdle
  /\ RunsIdle /\ FftIdle /\ FrameIdle /\ FaultsIdle
  /\ LodIdle /\ TilesIdle /\ AnomaliesIdle /\ AppIdle
  /\ \E nb \in FluxNumBins, nf \in 1..MaxFluxFrames :
       /\ fxLeft \in [1..nf -> [1..nb -> LeftMagnitudes]]
       /\ fxRight \in [1..nf -> [1..nb -> RightMagnitudes]]
       /\ fxBuffers = [name \in {"A", "B"} |-> [bin \in 1..nb |-> 0]]
  /\ fxPrev = "A"
  /\ fxCurr = "B"
  /\ fxFrame = 0
  /\ fxFlux = << >>

FluxFrame ==
  /\ fxFrame < Len(fxLeft)
  /\ LET out == fluxFrame(fxBuffers, fxPrev, fxCurr,
                          fxLeft[fxFrame + 1], fxRight[fxFrame + 1], fxFrame)
     IN /\ fxBuffers' = out.buffers
        /\ fxPrev' = out.prev
        /\ fxCurr' = out.curr
        /\ fxFlux' = Append(fxFlux, out.spectralFlux)
  /\ fxFrame' = fxFrame + 1
  /\ UNCHANGED <<fxLeft, fxRight, notFluxVars>>

NextFlux == FluxFrame

SpecFlux == InitFlux /\ [][NextFlux]_vars

\* the mixed magnitude 0.5 * (left + right) of a bin of a frame, as the sum
\* of the retained full spectra gives it
MixedOf(f, bin) == (fxLeft[f + 1][bin] + fxRight[f + 1][bin]) \div 2

FluxBinSet == 1..Len(fxLeft[1])

\* the positive part of the change of a bin from frame f - 1 to frame f,
\* the earlier frame taken as retained (exact) or as the buffer holds it
PositiveDelta(f, bin, exact) ==
  LET before == IF exact THEN MixedOf(f - 1, bin) ELSE fround(MixedOf(f - 1, bin))
  IN Max2(0, MixedOf(f, bin) - before)

FluxSum(f, exact) ==
  SumOver([i \in 0..(Len(fxLeft[1]) - 1) |-> PositiveDelta(f, i + 1, exact)],
          0, Len(fxLeft[1]))

BuffersDistinct == fxPrev # fxCurr

FirstFluxZero == Len(fxFlux) >= 1 => fxFlux[1] = 0

\* C23 as stated: the double buffer is equivalent to retaining full spectra:
\* after a frame is processed 'previous' holds exactly that frame's mixed
\* magnitudes, the flux of every frame f > 0 is the sum over the bins of
\* max(0, mixed_f - mixed_(f-1)) divided by numBins, the two buffers are
\* never the same array, and the flux of frame 0 is 0.
C23_FluxEqualsFullSpectra ==
  /\ BuffersDistinct
  /\ FirstFluxZero
  /\ fxFrame >= 1 =>
       \A bin \in FluxBinSet : fxBuffers[fxPrev][bin] = MixedOf(fxFrame - 1, bin)
  /\ \A f \in 1..(Len(fxFlux) - 1) :
       fxFlux[f + 1] * Len(fxLeft[1]) = FluxSum(f, TRUE)

\* C23 amended: as above, with 'previous' holding the mixed magnitudes of the
\* frame before rounded to single precision, the flux of frame f > 0 being
\* the sum of max(0, mixed_f - rounded mixed_(f-1)) divided by numBins and
\* itself stored in single precision.
C23_FluxEqualsRoundedSpectra ==
  /\ BuffersDistinct
  /\ FirstFluxZero
  /\ fxFrame >= 1 =>
       \A bin \in FluxBinSet :
         fxBuffers[fxPrev][bin] = fround(MixedOf(fxFrame - 1, bin))
  /\ \A f \in 1..(Len(fxFlux) - 1) :
       fxFlux[f + 1] = fround(FluxSum(f, FALSE) \div Len(fxLeft[1]))

\* three frames are done, the array of frame 0 has been written again, the
\* last flux is positive and a mixed magnitude of the frame before it is not
\* a single-precision value
C23_Witness ==
  /\ fxFrame = 3
  /\ fxFlux[3] > 0
  /\ \E bin \in FluxBinSet : fround(MixedOf(1, bin)) # MixedOf(1, bin)
  /\ fxPrev = "B"

----------------------------------------------------------------------------
(* computeWaveformLODs. A sample is <<"fin", n>>, <<"inf", 1>>,            *)
(* <<"inf", -1>> or <<"nan", 0>>.                                          *)

WAVEFORM_SCALES == <<64, 256, 1024, 4096>>

Fin(n) == <<"fin", n>>
PosInfinity == <<"inf", 1>>
NegInfinity == <<"inf", -1>>
NaN == <<"nan", 0>>

\* the place of a sample that is not NaN in the order of the numbers
floatKey(x) == IF x[1] = "inf" THEN x[2] * 1000 ELSE x[2]

\* a < b of two numbers: false when one of them is NaN
floatLess(a, b) == a[1] # "nan" /\ b[1] # "nan" /\ floatKey(a) < floatKey(b)

\* Number.isFinite
isFinite(x) == x[1] = "fin"

\* the body of the loop over the samples of a bucket
bucketStep(min, max, sample) ==
  [min |-> IF floatLess(sample, min) THEN sample ELSE min,
   max |-> IF floatLess(max, sample) THEN sample ELSE max]

RECURSIVE bucketMinMax(_, _, _)
\* min and max after the loop over the samples i of a bucket, start <= i <
\* end, begun at (Infinity, -Infinity): for more than one sample the loop
\* over the first half, continued by the values the second half puts in
bucketMinMax(samples, i, end) ==
  IF i >= end THEN [min |-> PosInfinity, max |-> NegInfinity]
  ELSE IF end = i + 1 THEN bucketStep(PosInfinity, NegInfinity, samples[i + 1])
  ELSE LET middle == (i + end) \div 2
           first == bucketMinMax(samples, i, middle)
           second == bucketMinMax(samples, middle, end)
       IN [min |-> bucketStep(first.min, first.max, second.min).min,
           max |-> bucketStep(first.min, first.max, second.max).max]

\* the end of the bucket that starts at start
bucketEnd(length, start, scale) == Min2(length, start + scale)

\* the array lod after the loop over the buckets of one scale: iteration k
\* starts at k * scale < samples.length and stores into lod[2k] and
\* lod[2k + 1]; an element no iteration stores into keeps its value
lodBuckets(samples, scale, lod) ==
  [j \in DOMAIN lod |->
     LET writeIndex == 2 * ((j - 1) \div 2)
         start == ((j - 1) \div 2) * scale
         found == bucketMinMax(samples, start, bucketEnd(Len(samples), start, scale))
     IN IF start >= Len(samples) THEN lod[j]
        ELSE IF j - 1 = writeIndex
          THEN (IF isFinite(found.min) THEN found.min ELSE Fin(0))
        ELSE (IF isFinite(found.max) THEN found.max ELSE Fin(0))]

computeWaveformLODs(samples, scales) ==
  [s \in 1..Len(scales) |->
     LET chunkCount == CeilDiv(Len(samples), scales[s])
     IN lodBuckets(samples, scales[s], [j \in 1..(chunkCount * 2) |-> Fin(0)])]

LodLengths == {1, 63, 64, 65, 257, 4097}
LodBaseValues == {Fin(1), Fin(-1)}
LodMarkValues == {Fin(2), Fin(-3), NaN, PosInfinity, NegInfinity}
LodMarkPositions(n) == {0, 63, 64, n - 1} \cap (0..(n - 1))

notLodVars ==
  <<pipeVars, bandVars, onsetVars, runVars, fftVars, frameVars, faultVars,
    fluxVars, tileVars, anomalyVars, appVars>>

\* a channel buffer: one value everywhere but at one or two marked samples
InitLods ==
  /\ PipelineIdle /\ BandsIdle /\ OnsetsIdle
  /\ RunsIdle /\ FftIdle /\ FrameIdle /\ FaultsIdle
  /\ FluxIdle /\ TilesIdle /\ AnomaliesIdle /\ AppIdle
  /\ \E n \in LodLengths, base \in LodBaseValues, mark \in LodMarkValues :
       \E p \in LodMarkPositions(n), q \in LodMarkPositions(n) :
         lodSamples = [i \in 1..n |-> IF i - 1 \in {p, q} THEN mark ELSE base]
  /\ lodResult = << >>
  /\ lodPc = "ready"

ComputeWaveformLODs ==
  /\ lodPc = "ready"
  /\ lodResult' = computeWaveformLODs(lodSamples, WAVEFORM_SCALES)
  /\ lodPc' = "done"
  /\ UNCHANGED <<lodSamples, notLodVars>>

NextLods == ComputeWaveformLODs

SpecLods == InitLods /\ [][NextLods]_vars

LodBucket(scale, k) ==
  {lodSamples[i + 1] : i \in (k * scale)..(Min2(Len(lodSamples), (k + 1) * scale) - 1)}

floatLeq(a, b) == a[1] # "nan" /\ b[1] # "nan" /\ floatKey(a) <= floatKey(b)

\* the least and the greatest of the numbers of a bucket, NaN left out
LeastOf(S) == CHOOSE m \in S : \A x \in S : x[1] # "nan" => floatLeq(m, x)
GreatestOf(S) == CHOOSE m \in S : \A x \in S : x[1] # "nan" => floatLeq(x, m)

HasFinite(S) == \E x \in S : isFinite(x)

LodPairsExact(finiteOnly) ==
  lodPc = "done" =>
    \A s \in 1..Len(WAVEFORM_SCALES) :
      LET scale == WAVEFORM_SCALES[s]
          lod == lodResult[s]
          count == CeilDiv(Len(lodSamples), scale)
      IN /\ Len(lod) = 2 * count
         /\ \A k \in 0..(count - 1) :
              LET bucket == LodBucket(scale, k)
              IN /\ bucket # {}
                 /\ (IF finiteOnly THEN \A x \in bucket : isFinite(x)
                                   ELSE HasFinite(bucket))
                      => /\ lod[2 * k + 1] = LeastOf(bucket)
                         /\ lod[2 * k + 2] = GreatestOf(bucket)
                         /\ floatLeq(lod[2 * k + 1], lod[2 * k + 2])

\* C24: for every scale of (64, 256, 1024, 4096) computeWaveformLODs gives
\* exactly ceil(N / scale) pairs, and pair k holds the minimum and the
\* maximum of the samples [k * scale, min(N, (k + 1) * scale)) of a bucket
\* that has a finite value, with min <= max, the last and shorter bucket
\* included.
C24_LodPairsAreMinMax == LodPairsExact(FALSE)

LodFiniteBuffers == LodPairsExact(TRUE)

----------------------------------------------------------------------------
(* Spectrogram tiles: createSpectrogramTiles and the tile and row that     *)
(* writeSpectrogramFrame writes for every frame of the STFT loop.          *)

TILE_SIZE == 1000

\* variant: the tile count is rounded down
createSpectrogramTiles_floorCount(nFrames, nBins, tileSize) ==
  [tile \in 1..Max2(1, nFrames \div tileSize) |->
     [j \in 1..(Min2(tileSize, nFrames - (tile - 1) * tileSize) * nBins) |-> 0]]

createSpectrogramTiles(nFrames, nBins, tileSize) ==
  [tile \in 1..Max2(1, CeilDiv(nFrames, tileSize)) |->
     [j \in 1..(Min2(tileSize, nFrames - (tile - 1) * tileSize) * nBins) |-> 0]]

\* writeSpectrogramFrame on the array of tiles: the tiles after the call,
\* the tile index and row offset it computed, and whether it returned at
\* the missing-tile guard; a store outside the tile's array is dropped
writeSpectrogramFrameAt(tiles, frameIndex, magnitudes, peak, nBins, tileSize) ==
  LET tileIndex == frameIndex \div tileSize
      frameInTile == frameIndex % tileSize
      rowOffset == frameInTile * nBins
  IN IF tileIndex >= Len(tiles)
       THEN [tiles |-> tiles, tileIndex |-> tileIndex, rowOffset |-> rowOffset,
             missing |-> TRUE]
     ELSE LET tile == tiles[tileIndex + 1]
              row == writeSpectrogramFrame([bin \in 1..nBins |-> 0],
                                           magnitudes, peak).row
          IN [tiles |-> [tiles EXCEPT ![tileIndex + 1] =
                           [j \in DOMAIN tile |->
                              IF j - 1 >= rowOffset /\ j - 1 < rowOffset + nBins
                                THEN row[j - rowOffset] ELSE tile[j]]],
              tileIndex |-> tileIndex, rowOffset |-> rowOffset,
              missing |-> FALSE]

TileFrameCounts == {1, 1000, 1001, 2001}
TileNumBins == {1, 2}
\* the magnitudes of every frame: all bins at the peak, stored as 255
LoudPeak == 1000

notTileVars ==
  <<pipeVars, bandVars, onsetVars, runVars, fftVars, frameVars, faultVars,
    fluxVars, lodVars, anomalyVars, appVars>>

InitTiles ==
  /\ PipelineIdle /\ BandsIdle /\ OnsetsIdle
  /\ RunsIdle /\ FftIdle /\ FrameIdle /\ FaultsIdle
  /\ FluxIdle /\ LodIdle /\ AnomaliesIdle /\ AppIdle
  /\ tlNumFrames \in TileFrameCounts
  /\ tlNumBins \in TileNumBins
  /\ tlTiles = createSpectrogramTiles(tlNumFrames, tlNumBins, TILE_SIZE)
  /\ tlFrame = 0
  /\ tlLast = << >>

WriteSpectrogramTile ==
  /\ tlFrame < tlNumFrames
  /\ LET out == writeSpectrogramFrameAt(tlTiles, tlFrame,
                                        [bin \in 1..tlNumBins |-> LoudPeak],
                                        LoudPeak, tlNumBins, TILE_SIZE)
     IN /\ tlTiles' = out.tiles
        /\ tlLast' = [tileIndex |-> out.tileIndex, rowOffset |-> out.rowOffset,
                      missing |-> out.missing]
  /\ tlFrame' = tlFrame + 1
  /\ UNCHANGED <<tlNumFrames, tlNumBins, notTileVars>>

NextTiles == WriteSpectrogramTile

SpecTiles == InitTiles /\ [][NextTiles]_vars

TileFrames(t) == Len(tlTiles[t]) \div tlNumBins

\* C25: there are max(1, ceil(numFrames / 1000)) tiles, every tile but the
\* last holds 1000 frames, the frame counts of the tiles sum to numFrames,
\* and every frame f done so far was written, without the missing-tile
\* guard, to row f mod 1000 of tile floor(f / 1000) inside that tile's array:
\* the written cells are exactly the rows of the frames done.
C25_TilesPartitionFrames ==
  /\ Len(tlTiles) = Max2(1, CeilDiv(tlNumFrames, 1000))
  /\ \A t \in 1..(Len(tlTiles) - 1) : Len(tlTiles[t]) = 1000 * tlNumBins
  /\ SumOver([i \in 0..(Len(tlTiles) - 1) |-> Len(tlTiles[i + 1])], 0, Len(tlTiles))
       = tlNumFrames * tlNumBins
  /\ tlFrame >= 1 =>
       /\ ~tlLast.missing
       /\ tlLast.tileIndex = (tlFrame - 1) \div 1000
       /\ tlLast.rowOffset = ((tlFrame - 1) % 1000) * tlNumBins
       /\ tlLast.rowOffset + tlNumBins <= Len(tlTiles[tlLast.tileIndex + 1])
  /\ \A t \in 1..Len(tlTiles) : \A j \in 1..Len(tlTiles[t]) :
       (tlTiles[t][j] # 0) <=> ((t - 1) * 1000 + (j - 1) \div tlNumBins < tlFrame)

\* all 2001 frames are written and the third tile holds the one last frame
C25_Witness ==
  /\ tlNumFrames = 2001
  /\ tlFrame = 2001
  /\ Len(tlTiles) = 3
  /\ TileFrames(3) = 1
  /\ tlLast.tileIndex = 2

\* C26: every fault of the result refers to frames of the frame grid only:
\* 0 <= frameStart and frameEnd <= numFrames - 1, for every rule, clipping
\* included.
C26_FaultFramesInGrid ==
  sPc = "done" =>
    \A k \in DOMAIN sFaults :
      /\ 0 <= sFaults[k].frameStart
      /\ sFaults[k].frameEnd <= sCfg.numFrames - 1

\* the same for the rules that work on the per-frame arrays
FrameRuleFaultsInGrid ==
  sPc = "done" =>
    \A k \in DOMAIN sFaults :
      sFaults[k].type # "clipping" =>
        /\ 0 <= sFaults[k].frameStart
        /\ sFaults[k].frameEnd <= sCfg.numFrames - 1

----------------------------------------------------------------------------
(* Onsets and spectral anomalies of one run: lines 134-135 and 468.        *)

AnomalyFluxValues == {0, 5, 9}

\* spectralFlux as the STFT loop leaves it: the flux of frame 0 is 0
AnomalyFluxSeqs ==
  {fl \in UNION {[1..n -> AnomalyFluxValues] : n \in 1..MaxAnomalyFrames} : fl[1] = 0}

notAnomalyVars ==
  <<pipeVars, bandVars, runVars, fftVars, frameVars, faultVars,
    fluxVars, lodVars, tileVars, appVars>>

InitAnomalies ==
  /\ PipelineIdle /\ BandsIdle
  /\ RunsIdle /\ FftIdle /\ FrameIdle /\ FaultsIdle
  /\ FluxIdle /\ LodIdle /\ TilesIdle /\ AppIdle
  /\ flux \in AnomalyFluxSeqs
  /\ medians = << >>
  /\ onsets = << >>
  /\ onsetPc = "ready"
  /\ anFaults = << >>
  /\ anPc = "off"

\* line 468 of detectFaults, on the flux and the medians of lines 134-135
DetectSpectralAnomalies ==
  /\ onsetPc = "done"
  /\ anPc = "off"
  /\ anFaults' = detectSpectralAnomalies(<< >>, flux, medians)
  /\ anPc' = "done"
  /\ UNCHANGED <<onsetVars, notAnomalyVars>>

NextAnomalies ==
  \/ RunningMedian
  \/ DetectOnsets
  \/ DetectSpectralAnomalies

SpecAnomalies == InitAnomalies /\ [][NextAnomalies]_vars

AnomaliesOver(f) ==
  {k \in DOMAIN anFaults : anFaults[k].frameStart <= f /\ f <= anFaults[k].frameEnd}

\* C27: every onset frame lies inside exactly one spectral_anomaly fault of
\* the run, the spectral_anomaly faults cover exactly the frames with
\* flux[f] > 4 * max(median[f], 1e-6), and frame 0 is never covered.
C27_OnsetsInsideAnomalies ==
  anPc = "done" =>
    /\ \A k \in DOMAIN anFaults : anFaults[k].type = "spectral_anomaly"
    /\ \A f \in OnsetFrames : Cardinality(AnomaliesOver(f)) = 1
    /\ \A f \in 0..LastFrame : (AnomaliesOver(f) # {}) <=> AboveThreshold(f)
    /\ AnomaliesOver(0) = {}

\* a fault of three frames of which only the middle one is an onset
C27_Witness ==
  /\ anPc = "done"
  /\ \E k \in DOMAIN anFaults :
       /\ anFaults[k].frameEnd = anFaults[k].frameStart + 2
       /\ anFaults[k].frameStart + 1 \in OnsetFrames
       /\ anFaults[k].frameStart \notin OnsetFrames
       /\ anFaults[k].frameEnd \notin OnsetFrames

----------------------------------------------------------------------------
(* The frame grid against the buffer *)

\* the test "start >= samples.length" of the RMS, phase-correlation and
\* mono-segment loops for frame f
StartPastBufferEnd(f) == f * hopSize >= leftLen

\* fillWindowedSignal stores a 0 for an index past the buffer end in frame f
ZeroPadded(f) == \E i \in 0..(fftSize - 1) : ~(f * hopSize + i < leftLen)

\* C28: every frame f of [0, numFrames) starts inside the buffer,
\* f * hopSize < numSamples, and with numSamples >= fftSize it ends inside
\* it, f * hopSize + fftSize <= numSamples: fillWindowedSignal pads with
\* zeros only when numSamples < fftSize, the single-frame case, and the
\* start-past-buffer-end branches are never taken.
C28_FramesInsideBuffer ==
  Validated =>
    \A f \in 0..(numFrames - 1) :
      /\ f * hopSize < numSamples
      /\ numSamples >= fftSize => f * hopSize + fftSize <= numSamples
      /\ ~StartPastBufferEnd(f)
      /\ ZeroPadded(f) => (numSamples < fftSize /\ numFrames = 1)

\* the STFT loop is through several frames of which the last one ends
\* where the buffer ends
C28_Witness ==
  /\ pc = "stft"
  /\ numFrames > 1
  /\ frame = numFrames
  /\ (numFrames - 1) * hopSize + fftSize = numSamples
  /\ hopSize > 1

----------------------------------------------------------------------------
(* The application around the worker: js/audio-decode.js (processFile and   *)
(* its token) and js/precompute.js (the active worker).  A decode is named  *)
(* by the token of its processFile call, and so is the audio it yields.     *)

NoWorker == 0

BusEvent(name, source) == [event |-> name, source |-> source]

\* variant: the worker is terminated with its handlers left in place
terminateActiveWorker_keepHandlers(workers, active) ==
  IF active = NoWorker THEN [workers |-> workers, active |-> active]
  ELSE [workers |-> [workers EXCEPT ![active].terminated = TRUE],
        active |-> NoWorker]

terminateActiveWorker(workers, active) ==
  IF active = NoWorker THEN [workers |-> workers, active |-> active]
  ELSE [workers |-> [workers EXCEPT ![active].handlers = FALSE,
                                    ![active].terminated = TRUE],
        active |-> NoWorker]

\* startPrecompute(decoded, bus, state) for decoded audio with Float32Array
\* channels: the workers, activeWorker, the events emitted and whether it
\* threw
startPrecompute(workers, active, audio, support) ==
  LET ended == terminateActiveWorker(workers, active)
  IN IF ~support
       THEN [workers |-> ended.workers, active |-> ended.active,
             emitted |-> <<BusEvent("PRECOMPUTE_ERROR", <<"start", audio>>)>>,
             threw |-> TRUE]
     ELSE [workers |-> Append(ended.workers,
                              [audio |-> audio, handlers |-> TRUE,
                               terminated |-> FALSE, progress |-> 0,
                               finished |-> FALSE, queue |-> << >>]),
           active |-> Len(ended.workers) + 1,
           emitted |-> <<BusEvent("PRECOMPUTE_PROGRESS", <<"start", audio>>)>>,
           threw |-> FALSE]

\* the FILE_LOADED listener of initPrecompute, lines 105-121, when
\* state.getDecoded() is audio
onFileLoaded(workers, active, audio, support) ==
  LET started == startPrecompute(workers, active, audio, support)
  IN [workers |-> started.workers, active |-> started.active,
      emitted |-> IF started.threw
                    THEN started.emitted
                           \o <<BusEvent("PRECOMPUTE_ERROR", <<"start", audio>>)>>
                  ELSE started.emitted]

\* variant: a decode is never taken as superseded
isStale_never(token, active) == FALSE

\* the test token !== activeToken of lines 159 and 188
isStale(token, active) == token # active

TerminalKinds == {"result", "error", "crash", "messageerror"}

notAppVars ==
  <<pipeVars, bandVars, onsetVars, runVars, fftVars, frameVars, faultVars,
    fluxVars, lodVars, tileVars, anomalyVars>>

\* main.js after initDecode and initPrecompute: nothing loaded, no worker
InitApp ==
  /\ PipelineIdle /\ BandsIdle /\ OnsetsIdle
  /\ RunsIdle /\ FftIdle /\ FrameIdle /\ FaultsIdle
  /\ FluxIdle /\ LodIdle /\ TilesIdle /\ AnomaliesIdle
  /\ apToken = 0
  /\ apDecodes = {}
  /\ apSettled = << >>
  /\ apInput = ""
  /\ apDecodeInit = TRUE
  /\ apDecoded = 0 /\ apPrecomputed = 0 /\ apMeta = 0 /\ apBookmarks = 0
  /\ apListening = TRUE
  /\ apSupport \in BOOLEAN
  /\ apActiveWorker = NoWorker
  /\ apWorkers = << >>
  /\ apEmitted = << >>

\* processFile up to its await, lines 139-158, called by onInput or onDrop
\* with a File
ProcessFile ==
  /\ apDecodeInit
  /\ apToken < MaxFiles
  /\ apToken' = apToken + 1
  /\ apDecodes' = apDecodes \cup {apToken + 1}
  /\ \E byInput \in BOOLEAN : apInput' = IF byInput THEN "file" ELSE apInput
  /\ \E large \in BOOLEAN :
       apEmitted' =
         <<BusEvent("PRECOMPUTE_PROGRESS", <<"decode", apToken + 1>>)>>
         \o (IF large THEN <<BusEvent("FILE_WARNING", <<"decode", apToken + 1>>),
                             BusEvent("FLASH_MESSAGE", <<"decode", apToken + 1>>)>>
             ELSE << >>)
  /\ UNCHANGED <<apSettled, apDecodeInit, apDecoded, apPrecomputed, apMeta,
                 apBookmarks, apListening, apSupport, apActiveWorker, apWorkers,
                 notAppVars>>

\* processFile after its await, lines 158-196: decodeAudioFile has resolved
\* (ok) or rejected
DecodeSettlesWith(token, ok) ==
  /\ token \in apDecodes
  /\ apDecodes' = apDecodes \ {token}
  /\ apSettled' = [token |-> token, activeToken |-> apToken, ok |-> ok]
  /\ apInput' = ""
  /\ IF isStale(token, apToken)
       THEN /\ apEmitted' = << >>
            /\ UNCHANGED <<apDecoded, apPrecomputed, apMeta, apBookmarks,
                           apActiveWorker, apWorkers>>
     ELSE IF ok
       THEN LET loaded == <<BusEvent("FILE_LOADED", <<"decode", token>>)>>
                heard == IF apListening
                           THEN onFileLoaded(apWorkers, apActiveWorker, token, apSupport)
                         ELSE [workers |-> apWorkers, active |-> apActiveWorker,
                               emitted |-> << >>]
            IN /\ apDecoded' = token
               /\ apPrecomputed' = 0
               /\ apBookmarks' = 0
               /\ apMeta' = token
               /\ apWorkers' = heard.workers
               /\ apActiveWorker' = heard.active
               /\ \E mobile \in BOOLEAN :
                    apEmitted' =
                      (IF mobile
                         THEN <<BusEvent("FILE_WARNING", <<"decode", token>>),
                                BusEvent("FLASH_MESSAGE", <<"decode", token>>)>>
                       ELSE << >>) \o loaded \o heard.emitted
     ELSE /\ apEmitted' = <<BusEvent("PRECOMPUTE_ERROR", <<"decode", token>>),
                            BusEvent("FLASH_MESSAGE", <<"decode", token>>)>>
          /\ UNCHANGED <<apDecoded, apPrecomputed, apMeta, apBookmarks,
                         apActiveWorker, apWorkers>>
  /\ UNCHANGED <<apToken, apDecodeInit, apListening, apSupport, notAppVars>>

DecodeResolves == \E token \in apDecodes : DecodeSettlesWith(token, TRUE)

DecodeRejects == \E token \in apDecodes : DecodeSettlesWith(token, FALSE)

\* the cleanup initDecode returns, lines 242-258
CleanupDecode ==
  /\ apDecodeInit
  /\ apDecodeInit' = FALSE
  /\ apToken' = apToken + 1
  /\ apEmitted' = << >>
  /\ UNCHANGED <<apDecodes, apSettled, apInput, apDecoded, apPrecomputed, apMeta,
                 apBookmarks, apListening, apSupport, apActiveWorker, apWorkers,
                 notAppVars>>

\* state.addBookmark from the interactions
AddBookmark ==
  /\ apDecoded # 0
  /\ apBookmarks = 0
  /\ apBookmarks' = 1
  /\ apEmitted' = << >>
  /\ UNCHANGED <<apToken, apDecodes, apSettled, apInput, apDecodeInit, apDecoded,
                 apPrecomputed, apMeta, apListening, apSupport, apActiveWorker,
                 apWorkers, notAppVars>>

\* a running worker posts a message, or fails with an error event: the
\* event waits in the queue of the main thread
WorkerPosts ==
  \E w \in DOMAIN apWorkers :
    /\ ~apWorkers[w].terminated
    /\ ~apWorkers[w].finished
    /\ \E kind \in {"progress"} \cup TerminalKinds :
         /\ kind = "progress" => apWorkers[w].progress < MaxWorkerProgress
         /\ apWorkers' =
              [apWorkers EXCEPT
                 ![w].queue = Append(@, kind),
                 ![w].progress = IF kind = "progress" THEN @ + 1 ELSE @,
                 ![w].finished = kind \in TerminalKinds]
    /\ apEmitted' = << >>
    /\ UNCHANGED <<apToken, apDecodes, apSettled, apInput, apDecodeInit,
                   apDecoded, apPrecomputed, apMeta, apBookmarks, apListening,
                   apSupport, apActiveWorker, notAppVars>>

\* the event loop dispatches the oldest waiting event of a worker to the
\* handler the worker object has: lines 43-83, or nothing for null
WorkerEvent ==
  \E w \in DOMAIN apWorkers :
    /\ apWorkers[w].queue # << >>
    /\ LET kind == Head(apWorkers[w].queue)
           taken == [apWorkers EXCEPT ![w].queue = Tail(@)]
           ended == terminateActiveWorker(taken, apActiveWorker)
       IN IF ~apWorkers[w].handlers
            THEN /\ apWorkers' = taken
                 /\ apEmitted' = << >>
                 /\ UNCHANGED <<apPrecomputed, apActiveWorker>>
          ELSE IF kind = "progress"
            THEN /\ apWorkers' = taken
                 /\ apEmitted' = <<BusEvent("PRECOMPUTE_PROGRESS", <<"worker", w>>)>>
                 /\ UNCHANGED <<apPrecomputed, apActiveWorker>>
          ELSE IF kind = "result"
            THEN /\ apPrecomputed' = apWorkers[w].audio
                 /\ apEmitted' = <<BusEvent("DATA_READY", <<"worker", w>>),
                                   BusEvent("PLAYHEAD_UPDATE", <<"worker", w>>)>>
                 /\ apWorkers' = ended.workers
                 /\ apActiveWorker' = ended.active
          ELSE /\ apEmitted' = <<BusEvent("PRECOMPUTE_ERROR", <<"worker", w>>)>>
               /\ apWorkers' = ended.workers
               /\ apActiveWorker' = ended.active
               /\ UNCHANGED apPrecomputed
    /\ UNCHANGED <<apToken, apDecodes, apSettled, apInput, apDecodeInit,
                   apDecoded, apMeta, apBookmarks, apListening, apSupport,
                   notAppVars>>

\* cancelPrecompute, lines 129-131, with a worker to terminate
CancelPrecompute ==
  /\ apActiveWorker # NoWorker
  /\ LET ended == terminateActiveWorker(apWorkers, apActiveWorker)
     IN /\ apWorkers' = ended.workers
        /\ apActiveWorker' = ended.active
  /\ apEmitted' = << >>
  /\ UNCHANGED <<apToken, apDecodes, apSettled, apInput, apDecodeInit, apDecoded,
                 apPrecomputed, apMeta, apBookmarks, apListening, apSupport,
                 notAppVars>>

\* the cleanup initPrecompute returns, lines 123-126
CleanupPrecompute ==
  /\ apListening
  /\ apListening' = FALSE
  /\ LET ended == terminateActiveWorker(apWorkers, apActiveWorker)
     IN /\ apWorkers' = ended.workers
        /\ apActiveWorker' = ended.active
  /\ apEmitted' = << >>
  /\ UNCHANGED <<apToken, apDecodes, apSettled, apInput, apDecodeInit, apDecoded,
                 apPrecomputed, apMeta, apBookmarks, apSupport, notAppVars>>

NextApp ==
  \/ ProcessFile
  \/ DecodeResolves
  \/ DecodeRejects
  \/ CleanupDecode
  \/ AddBookmark
  \/ WorkerPosts
  \/ WorkerEvent
  \/ CancelPrecompute
  \/ CleanupPrecompute

SpecApp == InitApp /\ [][NextApp]_vars

\* the workers that have not been terminated
LiveWorkers == {w \in DOMAIN apWorkers : ~apWorkers[w].terminated}

\* the workers whose object still has its handlers
HandledWorkers == {w \in DOMAIN apWorkers : apWorkers[w].handlers}

FromWorker(e) == e.source[1] = "worker"

OneActiveWorker ==
  /\ Cardinality(LiveWorkers) <= 1
  /\ LiveWorkers \subseteq {apActiveWorker}
  /\ HandledWorkers \subseteq {apActiveWorker}
  /\ apActiveWorker # NoWorker =>
       /\ apActiveWorker \in LiveWorkers
       /\ apWorkers[apActiveWorker].audio = apDecoded

PrecomputedOfDecoded == apPrecomputed # 0 => apPrecomputed = apDecoded

\* a step forwards to the bus or stores only what the worker that is the
\* active one before the step sent
NoSupersededMessage ==
  /\ \A i \in DOMAIN apEmitted' :
       FromWorker(apEmitted'[i]) =>
         /\ apEmitted'[i].source[2] = apActiveWorker
         /\ apEmitted'[i].source[2] = Len(apWorkers)
  /\ (apPrecomputed' # apPrecomputed /\ apPrecomputed' # 0) =>
       /\ apActiveWorker # NoWorker
       /\ apActiveWorker = Len(apWorkers)
       /\ apPrecomputed' = apWorkers[apActiveWorker].audio

\* C29: at most one precompute worker is active at any time, and once
\* startPrecompute has run again, or cancelPrecompute or the cleanup, no
\* progress, result or error of the earlier worker is forwarded to the bus
\* or stored with state.setPrecomputed; so a non-null state.getPrecomputed()
\* was computed from the audio state.getDecoded() returns.
C29_NoSupersededRun ==
  /\ [](OneActiveWorker /\ PrecomputedOfDecoded)
  /\ [][NoSupersededMessage]_vars

\* the result of the second worker is stored while a result of the first,
\* superseded worker is still waiting to be dispatched
C29_Witness ==
  /\ Len(apWorkers) = 2
  /\ apWorkers[1].terminated
  /\ apWorkers[1].queue # << >>
  /\ Head(apWorkers[1].queue) = "result"
  /\ apPrecomputed = 2
  /\ apDecoded = 2

\* a decode that settles in this step after a later processFile call or the
\* cleanup changes nothing, and the latest decode takes effect when it
\* resolves
StaleDecodeIgnored ==
  \A token \in apDecodes \ apDecodes' :
    /\ token < apToken =>
         /\ apDecoded' = apDecoded
         /\ apPrecomputed' = apPrecomputed
         /\ apBookmarks' = apBookmarks
         /\ apMeta' = apMeta
         /\ \A i \in DOMAIN apEmitted' :
              apEmitted'[i].event \notin {"FILE_LOADED", "PRECOMPUTE_ERROR"}
    /\ (token = apToken /\ apSettled'.ok) =>
         /\ apDecoded' = token
         /\ apMeta' = token
         /\ apPrecomputed' = 0

\* C30: only the most recently requested decode takes effect: a decode of
\* file A that succeeds or fails after processFile was started for file B
\* changes no state (decoded, precomputed, bookmarks, file meta) and emits
\* neither FILE_LOADED nor PRECOMPUTE_ERROR, whichever decode completes
\* first.
C30_OnlyLatestDecode == [][StaleDecodeIgnored]_vars

\* the second file is loaded and bookmarked, then the decode of the first
\* file resolves and is ignored
C30_Witness ==
  /\ apSettled # << >>
  /\ apSettled.token = 1
  /\ apSettled.activeToken = 2
  /\ apSettled.ok
  /\ apDecoded = 2
  /\ apBookmarks = 1

====
